---- MODULE Spec2Model ----
(***************************************************************************)
(* The vector document store of solid-fortnight: the three wrappers        *)
(* VectorDB (vectordb-client-python/vector_db_crud.py), SimpleVectorDB     *)
(* (vectordb/simple_example.py) and AdvancedVectorDB                       *)
(* (vectordb/advanced_example.py) over one ChromaDB collection.            *)
(*                                                                         *)
(* The wrappers hold no document state of their own: every call is a call  *)
(* on self.collection / self.client.  The collection is modelled by the    *)
(* behaviour of the chromadb releases the wrappers are written against     *)
(* (PersistentClient, get_collection raising ValueError: 0.4.x / 0.5.x):   *)
(*   - collection.add ignores a record whose id is already stored (it is   *)
(*     not an upsert; chromadb has a separate collection.upsert);          *)
(*   - collection.update / collection.delete of an id that is not stored   *)
(*     do nothing and raise nothing;                                       *)
(*   - collection.update merges the given metadata keys into the stored    *)
(*     metadata;                                                           *)
(*   - list lengths, duplicate ids within one call and the embedding       *)
(*     dimension are validated before anything is written;                 *)
(*   - a where filter must hold exactly one key;                           *)
(*   - an empty metadata dict is either rejected (ValueError) or stored as *)
(*     "no metadata" and read back as None, depending on the release:      *)
(*     strictMetadata is that property of the installed build;             *)
(*   - delete_collection of a missing collection raises ValueError.        *)
(***************************************************************************)
EXTENDS Integers, Sequences, FiniteSets, TLC

VARIABLES
    cls,            \* class of the live handle: which wrapper the process runs
    encDim,         \* output dimension of the handle's encoder (self.encoder)
    strictMetadata, \* the installed chromadb rejects an empty metadata dict
    exists,         \* the collection exists in the store (self.collection is live)
    dimension,      \* the collection's locked embedding dimension, 0 = not set yet
    docs,           \* the collection: id -> [text, metadata, embedding]
    last,           \* the last call: its name, arguments, return value, exception
    callers,        \* two callers at work on the collection at once: where each
                    \* is in its calls, and what it has read and returned
    tieOrder,       \* the order in which the collection's index lists records
                    \* at the same distance from a query
    file,           \* the JSON file export_to_json writes and import_from_json reads
    aws,            \* pdf_to_bedrock_kb: os.environ, the module's constants read
                    \* from it at import, and the S3 and Bedrock calls made
    a2a             \* the A2A provider (failover or load-balanced): its fields
                    \* and the execute calls in progress on it

vars == <<cls, encDim, strictMetadata, exists, dimension, docs, last, callers, tieOrder,
          file, aws, a2a>>

----------------------------------------------------------------------------
(* Values *)

\* Python's None, where a mapping, a document or an id is expected.
PyNone == [none |-> TRUE]

\* None where a string (a document id, a text) is expected.
NoId == "<None>"
NoText == "<None>"

\* The empty dict {}.
EmptyMeta == [k \in {} |-> ""]

MetaX == [category |-> "x"]
MetaXEn == [category |-> "x", lang |-> "en"]

\* Metadata arguments callers pass: omitted (None) or a non-empty dict.
MetaArgs == {PyNone, MetaX, MetaXEn}

\* where filters callers pass to delete_by_metadata (non-empty dicts).
WhereArgs == {MetaX, [lang |-> "en"], MetaXEn, [category |-> "y"]}

\* Explicit document ids callers pass, and the ids uuid4 can hand out.
Ids == {"doc1", "doc2"}
UuidPool == {"uuid-a"}
AllIds == Ids \cup UuidPool

Texts == {"the cat sat", "dogs are loyal"}

\* Output size of all-MiniLM-L6-v2, the default embedding_model, and of
\* SimpleVectorDB._simple_embedding.
DefaultDim == 384
\* Output size of another embedding_model an AdvancedVectorDB can be built
\* with (all-mpnet-base-v2: 768).
OtherModelDim == 2 * DefaultDim
EncoderDims == {DefaultDim, OtherModelDim}

EmptyDocs == [i \in {} |-> PyNone]

Range(s) == {s[i] : i \in DOMAIN s}

----------------------------------------------------------------------------
(* The embedding gateway *)

\* encoder.encode(text): a vector of the encoder's dimension that is a
\* function of the text alone.  The vector is kept as (dimension, text).
Embed(text, dim) == [dim |-> dim, of |-> text]

\* VectorDB._generate_embedding: SentenceTransformer('all-MiniLM-L6-v2').
GenerateEmbedding(text) == Embed(text, encDim)

\* SimpleVectorDB._simple_embedding(text): dimension defaults to 384.
SimpleEmbedding(text) == Embed(text, DefaultDim)

----------------------------------------------------------------------------
(* The chromadb collection *)

\* The collection as a value: its locked dimension and its records.
Col == [dimension |-> dimension, docs |-> docs]

RaisedIn(col, e) == [exc |-> e, dimension |-> col.dimension, docs |-> col.docs]

Raised(e) == RaisedIn(Col, e)

\* Stored form of a metadata argument: chromadb keeps no row for an empty
\* dict, and reads a record without metadata rows back as None.
StoredMeta(m) == IF m = EmptyMeta \/ m = PyNone THEN PyNone ELSE m

FirstIndex(ids, id) == CHOOSE i \in DOMAIN ids : ids[i] = id /\ \A j \in 1..(i - 1) : ids[j] # id

\* The record collection.add stores for position i of its arguments.
NewRecord(i, embeddings, documents, metadatas) ==
    [text |-> documents[i],
     metadata |-> IF Len(metadatas) = 0 THEN PyNone ELSE StoredMeta(metadatas[i]),
     embedding |-> embeddings[i]]

\* Validation of collection.add's arguments, all of it before any write:
\* the exception raised, or "none".
ChromaAddValidate(col, ids, embeddings, documents, metadatas) ==
    IF ~exists THEN "ValueError"
    ELSE IF Len(ids) = 0 THEN "ValueError"
    ELSE IF Len(embeddings) # Len(ids) \/ Len(documents) # Len(ids)
            \/ (Len(metadatas) # 0 /\ Len(metadatas) # Len(ids)) THEN "ValueError"
    ELSE IF Cardinality(Range(ids)) # Len(ids) THEN "DuplicateIDError"
    ELSE IF strictMetadata
            /\ \E i \in DOMAIN metadatas : metadatas[i] = EmptyMeta THEN "ValueError"
    ELSE IF \E i \in DOMAIN embeddings :
                embeddings[i].dim # (IF col.dimension = 0 THEN embeddings[1].dim
                                     ELSE col.dimension)
    THEN "InvalidDimensionException"
    ELSE "none"

\* The write of a validated collection.add: a record whose id is already
\* stored is skipped (chromadb logs "Add of existing embedding ID").
ChromaAddWrite(col, ids, embeddings, documents, metadatas) ==
    [id \in DOMAIN col.docs \cup Range(ids) |->
        IF id \in DOMAIN col.docs THEN col.docs[id]
        ELSE NewRecord(FirstIndex(ids, id), embeddings, documents, metadatas)]

\* collection.add(embeddings, documents, metadatas, ids) on collection col;
\* an empty metadatas list is falsy and counts as not passed.
ChromaAdd(col, ids, embeddings, documents, metadatas) ==
    LET e == ChromaAddValidate(col, ids, embeddings, documents, metadatas) IN
    IF e # "none" THEN RaisedIn(col, e)
    ELSE [exc |-> "none",
          dimension |-> IF col.dimension = 0 THEN embeddings[1].dim ELSE col.dimension,
          docs |-> ChromaAddWrite(col, ids, embeddings, documents, metadatas)]

MergeMetaReplaces(old, new) ==
    IF new = PyNone THEN old ELSE IF new = EmptyMeta THEN PyNone ELSE new

\* metadata keys of an update are merged into the stored metadata.
MergeMeta(old, new) ==
    IF new = PyNone \/ new = EmptyMeta THEN old
    ELSE IF old = PyNone THEN new
    ELSE [k \in DOMAIN old \cup DOMAIN new |-> IF k \in DOMAIN new THEN new[k] ELSE old[k]]

\* collection.update(ids=[id], embeddings?, documents?, metadatas?): embedding
\* and meta are PyNone, text is NoText, when the keyword is not passed.
ChromaUpdate(id, embedding, text, meta) ==
    IF ~exists THEN Raised("ValueError")
    ELSE IF strictMetadata /\ meta = EmptyMeta THEN Raised("ValueError")
    ELSE IF embedding # PyNone /\ dimension # 0 /\ embedding.dim # dimension
    THEN Raised("InvalidDimensionException")
    ELSE IF id \notin DOMAIN docs THEN [exc |-> "none", dimension |-> dimension, docs |-> docs]
    ELSE [exc |-> "none", dimension |-> dimension,
          docs |-> [docs EXCEPT ![id] =
                      [text |-> IF text = NoText THEN @.text ELSE text,
                       metadata |-> MergeMeta(@.metadata, meta),
                       embedding |-> IF embedding = PyNone THEN @.embedding ELSE embedding]]]

\* collection.delete(ids=ids)
ChromaDeleteIds(ids) ==
    IF ~exists THEN Raised("ValueError")
    ELSE [exc |-> "none", dimension |-> dimension,
          docs |-> [id \in DOMAIN docs \ ids |-> docs[id]]]

\* A stored metadata satisfies a one-key where filter.
Matches(meta, where) ==
    /\ meta # PyNone
    /\ \A k \in DOMAIN where : k \in DOMAIN meta /\ meta[k] = where[k]

\* collection.delete(where=where): validate_where accepts exactly one key.
ChromaDeleteWhere(where) ==
    IF ~exists THEN Raised("ValueError")
    ELSE IF Cardinality(DOMAIN where) # 1 THEN Raised("ValueError")
    ELSE [exc |-> "none", dimension |-> dimension,
          docs |-> [id \in {d \in DOMAIN docs : ~Matches(docs[d].metadata, where)} |-> docs[id]]]

\* collection.count()
CountDocuments == Cardinality(DOMAIN docs)

----------------------------------------------------------------------------
(* Construction *)

\* The wrappers a process on a persistent directory can open; SimpleVectorDB
\* runs on chromadb.Client(), an in-memory store of its own.
Persistent == {"VectorDB", "AdvancedVectorDB"}

\* The encoder a wrapper of class c can be built with: only AdvancedVectorDB
\* takes an embedding_model.
EncoderDimsOf(c) == IF c = "AdvancedVectorDB" THEN EncoderDims ELSE {DefaultDim}

NoCall == [op |-> "none", exc |-> "none", ret |-> PyNone]

\* One caller at a time: no calls in flight.
NoCallers == [pc |-> "none"]

\* No export file has been written.
NoFile == [written |-> FALSE]

\* The module pdf_to_bedrock_kb is not loaded.
NoAws == [imported |-> FALSE]

\* No A2A provider is set up.
NoA2A == [providers |-> 0]

Init ==
    /\ cls \in Persistent \cup {"SimpleVectorDB"}
    /\ encDim \in EncoderDimsOf(cls)
    /\ strictMetadata \in BOOLEAN
    /\ exists = TRUE
    /\ dimension = 0
    /\ docs = EmptyDocs
    /\ last = NoCall
    /\ callers = NoCallers
    /\ tieOrder = <<>>
    /\ file = NoFile
    /\ aws = NoAws
    /\ a2a = NoA2A

\* __init__ of a wrapper on the same store: get_collection, and
\* create_collection when that raises ValueError.
Construct(c, d) ==
    /\ (cls = "SimpleVectorDB") = (c = "SimpleVectorDB")
    /\ d \in EncoderDimsOf(c)
    /\ cls' = c
    /\ encDim' = d
    /\ exists' = TRUE
    /\ last' = [op |-> "__init__", exc |-> "none", ret |-> PyNone]
    /\ UNCHANGED <<aws, a2a, file, tieOrder, callers, strictMetadata, dimension, docs>>

----------------------------------------------------------------------------
(* VectorDB: CRUD *)

\* uuid.uuid4() as a string: an id no stored document has.
GenerateId == UuidPool \ DOMAIN docs

\* add_document with collection.add wrapped in a try block that swallows
\* the store's exception.
add_document_swallows(text, metadata, document_id) ==
    /\ cls = "VectorDB"
    /\ \E id \in (IF document_id = NoId THEN GenerateId ELSE {document_id}) :
        LET meta == IF metadata = PyNone THEN EmptyMeta ELSE metadata
            r == ChromaAdd(Col, <<id>>, <<GenerateEmbedding(text)>>, <<text>>, <<meta>>)
        IN  /\ docs' = r.docs
            /\ dimension' = r.dimension
            /\ last' = [op |-> "add_document", id |-> id, text |-> text,
                        metadata |-> metadata, generated |-> (document_id = NoId),
                        had |-> (id \in DOMAIN docs), exc |-> "none",
                        ret |-> IF r.exc = "none" THEN id ELSE NoId]
    /\ UNCHANGED <<aws, a2a, file, tieOrder, callers, cls, encDim, strictMetadata, exists>>

\* VectorDB.add_document(text, metadata=None, document_id=None)
add_document(text, metadata, document_id) ==
    /\ cls = "VectorDB"
    /\ \E id \in (IF document_id = NoId THEN GenerateId ELSE {document_id}) :
        LET meta == IF metadata = PyNone THEN EmptyMeta ELSE metadata
            r == ChromaAdd(Col, <<id>>, <<GenerateEmbedding(text)>>, <<text>>, <<meta>>)
        IN  /\ docs' = r.docs
            /\ dimension' = r.dimension
            /\ last' = [op |-> "add_document", id |-> id, text |-> text,
                        metadata |-> metadata, generated |-> (document_id = NoId),
                        had |-> (id \in DOMAIN docs), exc |-> r.exc,
                        ret |-> IF r.exc = "none" THEN id ELSE NoId]
    /\ UNCHANGED <<aws, a2a, file, tieOrder, callers, cls, encDim, strictMetadata, exists>>

\* What VectorDB.get_document(document_id) / SimpleVectorDB.get(doc_id)
\* return in the current state: any exception of collection.get is swallowed.
GetResult(document_id) ==
    IF exists /\ document_id \in DOMAIN docs
    THEN [id |-> document_id, document |-> docs[document_id].text,
          metadata |-> docs[document_id].metadata]
    ELSE PyNone

\* VectorDB.get_document(document_id)
get_document(document_id) ==
    /\ cls = "VectorDB"
    /\ last' = [op |-> "get_document", id |-> document_id, exc |-> "none",
                swallowed |-> IF exists THEN "none" ELSE "ValueError",
                ret |-> GetResult(document_id)]
    /\ UNCHANGED <<aws, a2a, file, tieOrder, callers, cls, encDim, strictMetadata, exists, dimension, docs>>

\* update_document sending the new text without a new embedding.
update_document_keeps_embedding(document_id, text, metadata) ==
    /\ cls = "VectorDB"
    /\ LET embedding == PyNone
           called == text # NoText \/ metadata # PyNone
           r == IF called THEN ChromaUpdate(document_id, embedding, text, metadata)
                ELSE Raised("none")
       IN  /\ docs' = r.docs
           /\ dimension' = r.dimension
           /\ last' = [op |-> "update_document", id |-> document_id, text |-> text,
                       metadata |-> metadata, had |-> (document_id \in DOMAIN docs),
                       exc |-> "none", swallowed |-> r.exc,
                       ret |-> (called /\ r.exc = "none")]
    /\ UNCHANGED <<aws, a2a, file, tieOrder, callers, cls, encDim, strictMetadata, exists>>

\* VectorDB.update_document(document_id, text=None, metadata=None)
update_document(document_id, text, metadata) ==
    /\ cls = "VectorDB"
    /\ LET embedding == IF text # NoText THEN GenerateEmbedding(text) ELSE PyNone
           called == text # NoText \/ metadata # PyNone
           r == IF called THEN ChromaUpdate(document_id, embedding, text, metadata)
                ELSE Raised("none")
       IN  /\ docs' = r.docs
           /\ dimension' = r.dimension
           /\ last' = [op |-> "update_document", id |-> document_id, text |-> text,
                       metadata |-> metadata, had |-> (document_id \in DOMAIN docs),
                       exc |-> "none", swallowed |-> r.exc,
                       ret |-> (called /\ r.exc = "none")]
    /\ UNCHANGED <<aws, a2a, file, tieOrder, callers, cls, encDim, strictMetadata, exists>>

\* VectorDB.delete_document(document_id)
delete_document(document_id) ==
    /\ cls = "VectorDB"
    /\ LET r == ChromaDeleteIds({document_id})
       IN  /\ docs' = r.docs
           /\ dimension' = r.dimension
           /\ last' = [op |-> "delete_document", id |-> document_id,
                       had |-> (document_id \in DOMAIN docs),
                       exc |-> "none", swallowed |-> r.exc, ret |-> (r.exc = "none")]
    /\ UNCHANGED <<aws, a2a, file, tieOrder, callers, cls, encDim, strictMetadata, exists>>

\* VectorDB.delete_by_metadata(where)
delete_by_metadata(where) ==
    /\ cls = "VectorDB"
    /\ LET r == ChromaDeleteWhere(where)
       IN  /\ docs' = r.docs
           /\ dimension' = r.dimension
           /\ last' = [op |-> "delete_by_metadata", where |-> where,
                       matched |-> Cardinality({d \in DOMAIN docs : Matches(docs[d].metadata, where)}),
                       exc |-> "none", swallowed |-> r.exc, ret |-> (r.exc = "none")]
    /\ UNCHANGED <<aws, a2a, file, tieOrder, callers, cls, encDim, strictMetadata, exists>>

\* VectorDB.clear_collection(): collection.get(), then delete(ids=all ids)
\* when there are any.
clear_collection ==
    /\ cls = "VectorDB"
    /\ LET r == IF exists /\ DOMAIN docs = {} THEN Raised("none")
                ELSE ChromaDeleteIds(DOMAIN docs)
       IN  /\ docs' = r.docs
           /\ dimension' = r.dimension
           /\ last' = [op |-> "clear_collection", exc |-> "none",
                       swallowed |-> r.exc, ret |-> (r.exc = "none")]
    /\ UNCHANGED <<aws, a2a, file, tieOrder, callers, cls, encDim, strictMetadata, exists>>

\* reset_collection leaving the dimension of the collection as it was.
reset_collection_keeps_dimension(created) ==
    /\ cls = "VectorDB"
    /\ IF ~exists
       THEN /\ last' = [op |-> "reset_collection", existed |-> FALSE, exc |-> "none",
                        swallowed |-> "ValueError", ret |-> FALSE]
            /\ UNCHANGED <<exists, dimension, docs>>
       ELSE /\ exists' = created
            /\ dimension' = dimension
            /\ docs' = EmptyDocs
            /\ last' = [op |-> "reset_collection", existed |-> TRUE, exc |-> "none",
                        swallowed |-> IF created THEN "none" ELSE "Exception",
                        ret |-> created]
    /\ UNCHANGED <<aws, a2a, file, tieOrder, callers, cls, encDim, strictMetadata>>

\* VectorDB.reset_collection(): client.delete_collection(name), which raises
\* ValueError when there is no such collection, then client.create_collection;
\* created is whether create_collection succeeds.  Every exception is
\* swallowed into a False return.
reset_collection(created) ==
    /\ cls = "VectorDB"
    /\ IF ~exists
       THEN /\ last' = [op |-> "reset_collection", existed |-> FALSE, exc |-> "none",
                        swallowed |-> "ValueError", ret |-> FALSE]
            /\ UNCHANGED <<exists, dimension, docs>>
       ELSE /\ exists' = created
            /\ dimension' = 0
            /\ docs' = EmptyDocs
            /\ last' = [op |-> "reset_collection", existed |-> TRUE, exc |-> "none",
                        swallowed |-> IF created THEN "none" ELSE "Exception",
                        ret |-> created]
    /\ UNCHANGED <<aws, a2a, file, tieOrder, callers, cls, encDim, strictMetadata>>

----------------------------------------------------------------------------
(* SimpleVectorDB *)

\* SimpleVectorDB.add(text, doc_id, metadata=None)
SimpleVectorDB_add(text, doc_id, metadata) ==
    /\ cls = "SimpleVectorDB"
    /\ LET meta == IF metadata = PyNone THEN EmptyMeta ELSE metadata
           r == ChromaAdd(Col, <<doc_id>>, <<SimpleEmbedding(text)>>, <<text>>, <<meta>>)
       IN  /\ docs' = r.docs
           /\ dimension' = r.dimension
           /\ last' = [op |-> "add", id |-> doc_id, text |-> text,
                       metadata |-> metadata, generated |-> FALSE,
                       had |-> (doc_id \in DOMAIN docs), exc |-> r.exc,
                       ret |-> IF r.exc = "none" THEN doc_id ELSE NoId]
    /\ UNCHANGED <<aws, a2a, file, tieOrder, callers, cls, encDim, strictMetadata, exists>>

\* SimpleVectorDB.get(doc_id)
SimpleVectorDB_get(doc_id) ==
    /\ cls = "SimpleVectorDB"
    /\ last' = [op |-> "get", id |-> doc_id, exc |-> "none", ret |-> GetResult(doc_id)]
    /\ UNCHANGED <<aws, a2a, file, tieOrder, callers, cls, encDim, strictMetadata, exists, dimension, docs>>

\* SimpleVectorDB.update(doc_id, text, metadata=None): always passes
\* embeddings, documents and metadatas=[metadata or {}].
SimpleVectorDB_update(doc_id, text, metadata) ==
    /\ cls = "SimpleVectorDB"
    /\ LET meta == IF metadata = PyNone THEN EmptyMeta ELSE metadata
           r == ChromaUpdate(doc_id, SimpleEmbedding(text), text, meta)
       IN  /\ docs' = r.docs
           /\ dimension' = r.dimension
           /\ last' = [op |-> "update", id |-> doc_id, text |-> text,
                       metadata |-> metadata, had |-> (doc_id \in DOMAIN docs),
                       exc |-> "none", swallowed |-> r.exc, ret |-> (r.exc = "none")]
    /\ UNCHANGED <<aws, a2a, file, tieOrder, callers, cls, encDim, strictMetadata, exists>>

\* SimpleVectorDB.delete(doc_id)
SimpleVectorDB_delete(doc_id) ==
    /\ cls = "SimpleVectorDB"
    /\ LET r == ChromaDeleteIds({doc_id})
       IN  /\ docs' = r.docs
           /\ dimension' = r.dimension
           /\ last' = [op |-> "delete", id |-> doc_id, had |-> (doc_id \in DOMAIN docs),
                       exc |-> "none", swallowed |-> r.exc, ret |-> (r.exc = "none")]
    /\ UNCHANGED <<aws, a2a, file, tieOrder, callers, cls, encDim, strictMetadata, exists>>

----------------------------------------------------------------------------
(* Batch insertion *)

\* Longest texts list and largest batch_size the callers pass.
MaxBatch == 3
MaxChunk == 2

\* The ids batch callers pass: consecutive ids of IdList from some start
\* (wrapping round when longer than IdList), or one id repeated.
IdList == <<"doc1", "doc2", "doc3">>
BatchIds == Range(IdList)
IdRun(start, len) == [i \in 1..len |-> IdList[((start + i - 2) % Len(IdList)) + 1]]
IdRepeat(start, len) == [i \in 1..len |-> IdList[start]]
IdSeqs(len) == {IdRun(s, len) : s \in DOMAIN IdList} \cup {IdRepeat(s, len) : s \in DOMAIN IdList}

\* Lengths of an ids / metadatas list passed along with n texts.
LensNear(n) == {k \in {n - 1, n, n + 1} : k >= 0 /\ k <= MaxBatch + 1}

Min(a, b) == IF a < b THEN a ELSE b

\* Python's seq[i:j], i and j counted from 0.
Slice(seq, i, j) == SubSeq(seq, i + 1, Min(j, Len(seq)))

\* The offset after i in range(0, total_docs, batch_size).
\* A loop stepping one past the chunk it has just committed.
NextOffsetSkips(i, batch_size) == i + batch_size + 1

\* The step of range(0, total_docs, batch_size).
NextOffset(i, batch_size) == i + batch_size

\* Number of iterations of range(0, n, c).
CeilDiv(n, c) == (n + c - 1) \div c

\* VectorDB.add_documents_batch(texts, metadatas=None, ids=None): idsGiven /
\* metasGiven tell whether the keyword is passed; when ids is not, one uuid
\* per text is generated.  All embeddings are computed, then one
\* collection.add is made.
add_documents_batch(texts, metasGiven, metadatas, idsGiven, ids) ==
    /\ cls = "VectorDB"
    /\ idsGiven \/ (Len(ids) = Len(texts) /\ Range(ids) \subseteq GenerateId
                    /\ Cardinality(Range(ids)) = Len(ids))
    /\ metasGiven \/ metadatas = [i \in 1..Len(texts) |-> EmptyMeta]
    /\ LET embeddings == [i \in 1..Len(texts) |-> GenerateEmbedding(texts[i])]
           r == ChromaAdd(Col, ids, embeddings, texts, metadatas)
       IN  /\ docs' = r.docs
           /\ dimension' = r.dimension
           /\ last' = [op |-> "add_documents_batch", texts |-> texts,
                       metasGiven |-> metasGiven, metadatas |-> metadatas,
                       idsGiven |-> idsGiven, ids |-> ids, batch_size |-> 0,
                       embedded |-> Len(texts),
                       commits |-> IF r.exc = "none" THEN 1 ELSE 0,
                       attempted |-> <<0>>,
                       exc |-> r.exc,
                       ret |-> IF r.exc = "none" THEN ids ELSE <<>>]
    /\ UNCHANGED <<aws, a2a, file, tieOrder, callers, cls, encDim, strictMetadata, exists>>

\* The loop of AdvancedVectorDB.add_documents_batch from offset i on: each
\* iteration slices the three lists, encodes the chunk's texts in one call
\* (_generate_embeddings_batch, which raises in iteration failAt of the call,
\* counted from 1, when failAt > 0) and makes one collection.add; an exception
\* leaves the loop.  run carries the collection, added_ids, and what the
\* call has done so far.
RECURSIVE IngestLoop(_, _, _, _, _, _, _)
IngestLoop(run, i, texts, metadatas, ids, batch_size, failAt) ==
    IF i >= Len(texts) THEN run
    ELSE LET batch_texts == Slice(texts, i, i + batch_size)
             batch_metadatas == Slice(metadatas, i, i + batch_size)
             batch_ids == Slice(ids, i, i + batch_size)
             tried == Append(run.attempted, i)
         IN  IF failAt = Len(tried)
             THEN [run EXCEPT !.attempted = tried, !.exc = "EncoderError"]
             ELSE LET embeddings == [k \in 1..Len(batch_texts) |->
                                        GenerateEmbedding(batch_texts[k])]
                      r == ChromaAdd(run.col, batch_ids, embeddings, batch_texts,
                                     batch_metadatas)
                  IN  IF r.exc # "none"
                      THEN [run EXCEPT !.attempted = tried, !.exc = r.exc,
                                       !.embedded = @ + Len(batch_texts)]
                      ELSE IngestLoop([col |-> [dimension |-> r.dimension, docs |-> r.docs],
                                       added_ids |-> run.added_ids \o batch_ids,
                                       attempted |-> tried,
                                       embedded |-> run.embedded + Len(batch_texts),
                                       commits |-> run.commits + 1,
                                       exc |-> "none"],
                                      NextOffset(i, batch_size), texts, metadatas, ids,
                                      batch_size, failAt)

\* AdvancedVectorDB.add_documents_batch(texts, metadatas, ids, batch_size)
AdvancedVectorDB_add_documents_batch(texts, metadatas, ids, batch_size, failAt) ==
    /\ cls = "AdvancedVectorDB"
    /\ failAt <= CeilDiv(Len(texts), batch_size)
    /\ LET run == IngestLoop([col |-> Col, added_ids |-> <<>>, attempted |-> <<>>,
                              embedded |-> 0, commits |-> 0, exc |-> "none"],
                             0, texts, metadatas, ids, batch_size, failAt)
       IN  /\ docs' = run.col.docs
           /\ dimension' = run.col.dimension
           /\ last' = [op |-> "AdvancedVectorDB.add_documents_batch", texts |-> texts,
                       metasGiven |-> TRUE, metadatas |-> metadatas,
                       idsGiven |-> TRUE, ids |-> ids, batch_size |-> batch_size,
                       embedded |-> run.embedded, commits |-> run.commits,
                       attempted |-> run.attempted, exc |-> run.exc,
                       ret |-> IF run.exc = "none" THEN run.added_ids ELSE <<>>]
    /\ UNCHANGED <<aws, a2a, file, tieOrder, callers, cls, encDim, strictMetadata, exists>>

\* batch_size: int = 100, the chunk size of the callers that pass none.
DefaultBatchSize == 100

\* The ids add_documents_from_csv gives the rows: csv_doc_0, csv_doc_1, ...
CsvIdList == <<"csv_doc_0", "csv_doc_1", "csv_doc_2", "csv_doc_3", "csv_doc_4">>
CsvIds(n) == [i \in 1..n |-> CsvIdList[i]]

\* The default metadata of row i (counted from 0) of a CSV file.
CsvMeta(i) == [source |-> "csv", row |-> i]

\* AdvancedVectorDB.add_documents_from_csv(csv_path, text_column): texts are
\* the rows' text column, readable is whether pd.read_csv succeeds; the rows
\* go to add_documents_batch with the default batch_size and every exception
\* propagates.
AdvancedVectorDB_add_documents_from_csv(texts, readable, failAt) ==
    /\ cls = "AdvancedVectorDB"
    /\ failAt <= CeilDiv(Len(texts), DefaultBatchSize)
    /\ readable \/ failAt = 0
    /\ LET ids == CsvIds(Len(texts))
           metadatas == [i \in 1..Len(texts) |-> CsvMeta(i - 1)]
           start == [col |-> Col, added_ids |-> <<>>, attempted |-> <<>>,
                     embedded |-> 0, commits |-> 0, exc |-> "none"]
           run == IF readable
                  THEN IngestLoop(start, 0, texts, metadatas, ids, DefaultBatchSize, failAt)
                  ELSE [start EXCEPT !.exc = "FileNotFoundError"]
       IN  /\ docs' = run.col.docs
           /\ dimension' = run.col.dimension
           /\ last' = [op |-> "add_documents_from_csv", texts |-> texts,
                       metadatas |-> metadatas, ids |-> ids,
                       batch_size |-> DefaultBatchSize, readable |-> readable,
                       embedded |-> run.embedded, commits |-> run.commits,
                       attempted |-> run.attempted, exc |-> run.exc,
                       ret |-> IF run.exc = "none" THEN run.added_ids ELSE <<>>]
    /\ UNCHANGED <<aws, a2a, file, tieOrder, callers, cls, encDim, strictMetadata, exists>>

\* AdvancedVectorDB.import_from_json(json_path): documents is the file's
\* 'documents' list of {id, document, metadata}, readable is whether the file
\* opens and parses; the lists go to add_documents_batch with the default
\* batch_size, and every exception is swallowed into a False return.
AdvancedVectorDB_import_from_json(documents, readable, failAt) ==
    /\ cls = "AdvancedVectorDB"
    /\ failAt <= CeilDiv(Len(documents), DefaultBatchSize)
    /\ readable \/ failAt = 0
    /\ LET texts == [i \in DOMAIN documents |-> documents[i].document]
           metadatas == [i \in DOMAIN documents |-> documents[i].metadata]
           ids == [i \in DOMAIN documents |-> documents[i].id]
           start == [col |-> Col, added_ids |-> <<>>, attempted |-> <<>>,
                     embedded |-> 0, commits |-> 0, exc |-> "none"]
           run == IF readable
                  THEN IngestLoop(start, 0, texts, metadatas, ids, DefaultBatchSize, failAt)
                  ELSE [start EXCEPT !.exc = "FileNotFoundError"]
       IN  /\ docs' = run.col.docs
           /\ dimension' = run.col.dimension
           /\ last' = [op |-> "import_from_json", documents |-> documents,
                       texts |-> texts, metadatas |-> metadatas, ids |-> ids,
                       batch_size |-> DefaultBatchSize, readable |-> readable,
                       embedded |-> run.embedded, commits |-> run.commits,
                       attempted |-> run.attempted, exc |-> "none",
                       swallowed |-> run.exc, ret |-> (run.exc = "none")]
    /\ UNCHANGED <<aws, a2a, file, tieOrder, callers, cls, encDim, strictMetadata, exists>>

AdvancedVectorDB_get_statistics_consumes ==
    /\ cls = "AdvancedVectorDB"
    /\ docs' = EmptyDocs
    /\ last' = [op |-> "get_statistics", exc |-> "none", ret |-> [total_documents |-> 0]]
    /\ UNCHANGED <<aws, a2a, file, tieOrder, callers, cls, encDim, strictMetadata, exists, dimension>>

\* AdvancedVectorDB.get_statistics(): collection.get(), the number of ids,
\* and, when the metadatas list is not empty, the union of the metadata keys
\* and for each key the number of distinct str() of its values among the
\* documents that have it.  A document stored without metadata comes back
\* with None, on which metadata.keys() raises AttributeError.  The metadata
\* values stored here are strings, which str() leaves as they are.
AdvancedVectorDB_get_statistics ==
    /\ cls = "AdvancedVectorDB"
    /\ LET failure == IF ~exists THEN "ValueError"
                      ELSE IF \E d \in DOMAIN docs : docs[d].metadata = PyNone
                      THEN "AttributeError"
                      ELSE "none"
           metadata_keys == UNION {DOMAIN docs[d].metadata : d \in DOMAIN docs}
           values(key) == {docs[d].metadata[key] :
                              d \in {x \in DOMAIN docs : key \in DOMAIN docs[x].metadata}}
           stats == IF DOMAIN docs = {}
                    THEN [total_documents |-> 0]
                    ELSE [total_documents |-> Cardinality(DOMAIN docs),
                          metadata_fields |-> metadata_keys,
                          metadata_unique_counts |->
                              [key \in metadata_keys |-> Cardinality(values(key))]]
       IN  last' = [op |-> "get_statistics", exc |-> failure,
                    ret |-> IF failure = "none" THEN stats ELSE PyNone]
    /\ UNCHANGED <<aws, a2a, file, tieOrder, callers, cls, encDim, strictMetadata, exists, dimension, docs>>

\* JSON null.
JsonNull == [null |-> TRUE]

JsonDumpDropsMetadata(doc) ==
    [id |-> doc.id, document |-> doc.document, metadata |-> JsonNull]

\* json.dump of one {id, document, metadata} item: strings and dicts of
\* strings as they are, None as null.
JsonDump(doc) ==
    [id |-> doc.id, document |-> doc.document,
     metadata |-> IF doc.metadata = PyNone THEN JsonNull ELSE doc.metadata]

\* json.load of one item: null as None.
JsonLoad(item) ==
    [id |-> item.id, document |-> item.document,
     metadata |-> IF item.metadata = JsonNull THEN PyNone ELSE item.metadata]

\* The orders in which collection.get() may list the stored ids in S.
Orderings(S) == {s \in [1..Cardinality(S) -> S] : Range(s) = S}

\* AdvancedVectorDB.export_to_json(output_path): collection.get() listing the
\* documents in the order order, written as {id, document, metadata} items;
\* writable is whether the file can be opened for writing.  Every exception
\* is swallowed into a False return.
AdvancedVectorDB_export_to_json(order, writable) ==
    /\ cls = "AdvancedVectorDB"
    /\ order \in Orderings(DOMAIN docs)
    /\ LET documents == [i \in DOMAIN order |->
                            [id |-> order[i], document |-> docs[order[i]].text,
                             metadata |-> docs[order[i]].metadata]]
           failure == IF ~exists THEN "ValueError"
                      ELSE IF ~writable THEN "PermissionError" ELSE "none"
       IN  /\ last' = [op |-> "export_to_json", total_documents |-> Len(order),
                       written |-> IF failure = "none" THEN documents ELSE <<>>,
                       exc |-> "none", swallowed |-> failure, ret |-> (failure = "none")]
           /\ file' = IF failure = "none"
                      THEN [written |-> TRUE, total_documents |-> Len(order),
                            documents |-> [i \in DOMAIN documents |-> JsonDump(documents[i])]]
                      ELSE file
    /\ UNCHANGED <<aws, a2a, tieOrder, callers, cls, encDim, strictMetadata, exists, dimension, docs>>

----------------------------------------------------------------------------
(* The CRUD specification *)

Next ==
    \/ \E c \in Persistent \cup {"SimpleVectorDB"}, d \in EncoderDims : Construct(c, d)
    \/ \E t \in Texts, m \in MetaArgs, i \in Ids \cup {NoId} : add_document(t, m, i)
    \/ \E i \in AllIds : get_document(i)
    \/ \E i \in AllIds, t \in Texts \cup {NoText}, m \in MetaArgs : update_document(i, t, m)
    \/ \E i \in AllIds : delete_document(i)
    \/ \E w \in WhereArgs : delete_by_metadata(w)
    \/ clear_collection
    \/ \E created \in BOOLEAN : reset_collection(created)
    \/ \E t \in Texts, i \in Ids, m \in MetaArgs : SimpleVectorDB_add(t, i, m)
    \/ \E i \in Ids : SimpleVectorDB_get(i)
    \/ \E i \in Ids, t \in Texts, m \in MetaArgs : SimpleVectorDB_update(i, t, m)
    \/ \E i \in Ids : SimpleVectorDB_delete(i)
    \/ AdvancedVectorDB_get_statistics

Spec == Init /\ [][Next]_vars

----------------------------------------------------------------------------
(* The insertion specification: one call, single or batch, on any collection
   an earlier run of the wrappers can have left behind.  A wrapper's
   constructor loads whatever collection the store holds under its name, so
   the state after construction is any well-formed collection: empty with no
   dimension yet, or locked to an encoder's dimension and holding records of
   that dimension.  SimpleVectorDB's in-memory collection only ever holds
   SimpleVectorDB's own 384-dimensional records. *)

StoredRecord(dim) ==
    [text |-> "dogs are loyal", metadata |-> MetaX,
     embedding |-> Embed("dogs are loyal", dim)]

StoredCollections(dim) ==
    IF dim = 0 THEN {EmptyDocs}
    ELSE {[id \in S |-> StoredRecord(dim)] : S \in SUBSET BatchIds}

InitInsert ==
    /\ cls \in Persistent \cup {"SimpleVectorDB"}
    /\ encDim \in EncoderDimsOf(cls)
    /\ strictMetadata \in BOOLEAN
    /\ exists = TRUE
    /\ dimension \in {0} \cup (IF cls = "SimpleVectorDB" THEN {DefaultDim} ELSE EncoderDims)
    /\ docs \in StoredCollections(dimension)
    /\ last = NoCall
    /\ callers = NoCallers
    /\ tieOrder = <<>>
    /\ file = NoFile
    /\ aws = NoAws
    /\ a2a = NoA2A

TextLists == {[i \in 1..n |-> t] : n \in 0..MaxBatch, t \in Texts}
MetaLists(n) == {[i \in 1..k |-> MetaX] : k \in LensNear(n) \ {n + 1}}
DefaultMetas(n) == {[i \in 1..n |-> EmptyMeta]}

\* The 'documents' lists of the JSON files import_from_json is given: what
\* export_to_json writes (metadata a dict, or null for a document stored
\* without metadata) under the ids IdSeqs gives.
DocumentLists ==
    {[i \in 1..Len(ids) |-> [id |-> ids[i], document |-> t, metadata |-> m]] :
        ids \in UNION {IdSeqs(n) : n \in 0..MaxBatch}, t \in Texts, m \in {MetaX, PyNone}}

\* No call has been made yet.
Fresh == last = NoCall

NextInsert ==
    \/ \E t \in Texts, m \in MetaArgs, i \in BatchIds \cup {NoId} :
          Fresh /\ add_document(t, m, i)
    \/ \E t \in Texts, m \in MetaArgs, i \in BatchIds :
          Fresh /\ SimpleVectorDB_add(t, i, m)
    \/ \E texts \in TextLists, mg \in BOOLEAN :
          \E metadatas \in (IF mg THEN MetaLists(Len(texts)) ELSE DefaultMetas(Len(texts))) :
          \E k \in LensNear(Len(texts)) : \E ids \in IdSeqs(k) :
              Fresh /\ add_documents_batch(texts, mg, metadatas, TRUE, ids)
    \/ \E texts \in TextLists, mg \in BOOLEAN :
          \E metadatas \in (IF mg THEN MetaLists(Len(texts)) ELSE DefaultMetas(Len(texts))) :
          \E ids \in [1..Len(texts) -> UuidPool] :
              Fresh /\ add_documents_batch(texts, mg, metadatas, FALSE, ids)
    \/ \E texts \in TextLists : \E metadatas \in MetaLists(Len(texts)) :
          \E k \in LensNear(Len(texts)) : \E ids \in IdSeqs(k) :
          \E c \in 1..MaxChunk, f \in 0..MaxBatch :
              Fresh /\ AdvancedVectorDB_add_documents_batch(texts, metadatas, ids, c, f)
    \/ \E texts \in TextLists, readable \in BOOLEAN, f \in 0..1 :
          Fresh /\ AdvancedVectorDB_add_documents_from_csv(texts, readable, f)
    \/ \E documents \in DocumentLists, readable \in BOOLEAN, f \in 0..1 :
          Fresh /\ AdvancedVectorDB_import_from_json(documents, readable, f)
    \/ \E order \in Orderings(DOMAIN docs), writable \in BOOLEAN :
          Fresh /\ AdvancedVectorDB_export_to_json(order, writable)
    \/ Fresh /\ AdvancedVectorDB_get_statistics
    \/ \E i \in BatchIds, t \in Texts \cup {NoText}, m \in MetaArgs :
          Fresh /\ update_document(i, t, m)
    \/ \E i \in BatchIds, t \in Texts, m \in MetaArgs :
          Fresh /\ SimpleVectorDB_update(i, t, m)
    \/ Fresh /\ clear_collection
    \/ \E created \in BOOLEAN : Fresh /\ reset_collection(created)

SpecInsert == InitInsert /\ [][NextInsert]_vars

----------------------------------------------------------------------------
(* Two callers on one collection: clear_collection beside add_document,
   get_document and count_documents.  The wrappers take no lock, so the unit
   of interleaving is the single chromadb call: clear_collection is
   collection.get() followed by collection.delete(ids=...), the other three
   make one collection call each. *)

MaxCalls == 2

\* The calls of the second caller.
OtherCalls ==
    {[op |-> "add_document", id |-> i, text |-> "the cat sat"] : i \in Ids}
    \cup {[op |-> "get_document", id |-> i] : i \in Ids}
    \cup {[op |-> "count_documents"]}

Programs == UNION {[1..n -> OtherCalls] : n \in 1..MaxCalls}

\* One call of the second caller on collection col: the collection after it
\* and what it returns (for add_document that raises, the exception's name).
Execute(col, call) ==
    IF call.op = "add_document"
    THEN LET r == ChromaAdd(col, <<call.id>>, <<GenerateEmbedding(call.text)>>,
                            <<call.text>>, <<MetaX>>)
         IN  [col |-> [dimension |-> r.dimension, docs |-> r.docs],
              ret |-> IF r.exc = "none" THEN call.id ELSE r.exc]
    ELSE IF call.op = "get_document"
    THEN [col |-> col,
          ret |-> IF call.id \in DOMAIN col.docs
                  THEN [id |-> call.id, document |-> col.docs[call.id].text,
                        metadata |-> col.docs[call.id].metadata]
                  ELSE PyNone]
    ELSE [col |-> col, ret |-> Cardinality(DOMAIN col.docs)]

\* clear_collection as one step on collection col.
ClearWhole(col) == [dimension |-> col.dimension, docs |-> EmptyDocs]

InitConcurrent ==
    /\ cls = "VectorDB"
    /\ encDim = DefaultDim
    /\ strictMetadata \in BOOLEAN
    /\ exists = TRUE
    /\ dimension \in {0, DefaultDim}
    /\ docs \in StoredCollections(dimension)
    /\ last = NoCall
    /\ \E p \in Programs :
          callers = [pc |-> "start", all_docs |-> {}, cleared |-> PyNone,
                     initial |-> Col, program |-> p, results |-> <<>>]
    /\ tieOrder = <<>>
    /\ file = NoFile
    /\ aws = NoAws
    /\ a2a = NoA2A

\* clear_collection, first half: all_docs = self.collection.get()
clear_collection_get ==
    /\ callers.pc = "start"
    /\ callers' = [callers EXCEPT !.pc = "fetched", !.all_docs = DOMAIN docs]
    /\ UNCHANGED <<aws, a2a, file, tieOrder, cls, encDim, strictMetadata, exists, dimension, docs, last>>

\* clear_collection, second half: self.collection.delete(ids=all_docs['ids'])
\* when all_docs['ids'] is not empty; return True.
clear_collection_delete ==
    /\ callers.pc = "fetched"
    /\ docs' = [id \in DOMAIN docs \ callers.all_docs |-> docs[id]]
    /\ callers' = [callers EXCEPT !.pc = "done", !.cleared = TRUE]
    /\ UNCHANGED <<aws, a2a, file, tieOrder, cls, encDim, strictMetadata, exists, dimension, last>>

\* The second caller makes its next call.
other_call ==
    /\ callers.pc # "none"
    /\ Len(callers.results) < Len(callers.program)
    /\ LET r == Execute(Col, callers.program[Len(callers.results) + 1])
       IN  /\ docs' = r.col.docs
           /\ dimension' = r.col.dimension
           /\ callers' = [callers EXCEPT !.results = Append(@, r.ret)]
    /\ UNCHANGED <<aws, a2a, file, tieOrder, cls, encDim, strictMetadata, exists, last>>

NextConcurrent == clear_collection_get \/ clear_collection_delete \/ other_call

SpecConcurrent == InitConcurrent /\ [][NextConcurrent]_vars

----------------------------------------------------------------------------
(* The query engine: search_similar and hybrid_search.  Distances are what
   the collection computes between the encoder's vectors; they are given
   here as a table in hundredths, keyword_weight in tenths, and the scores
   are kept as exact fractions. *)

MaxResults == 2

DistanceUnit == 100
WeightUnit == 10

\* The texts stored in the queried collections, and the queries.
QueryDocTexts == {"the cat sat", "Dogs Are Loyal"}
Queries == {"", "The CAT", "loyal cat", "cat cat"}

\* keyword_weight arguments, in tenths: 0, 0.3 (the default), 1, and two
\* values outside [0, 1].
Weights == {0, 3, WeightUnit, 0 - 5, WeightUnit + 5}

\* str.split(): the whitespace-delimited words of a text.
Split(text) ==
    CASE text = "" -> <<>>
      [] text = "the cat sat" -> <<"the", "cat", "sat">>
      [] text = "Dogs Are Loyal" -> <<"Dogs", "Are", "Loyal">>
      [] text = "The CAT" -> <<"The", "CAT">>
      [] text = "loyal cat" -> <<"loyal", "cat">>
      [] text = "cat cat" -> <<"cat", "cat">>

\* str.lower() of a word.
Lower(word) ==
    CASE word = "The" -> "the"
      [] word = "CAT" -> "cat"
      [] word = "Dogs" -> "dogs"
      [] word = "Are" -> "are"
      [] word = "Loyal" -> "loyal"
      [] OTHER -> word

\* set(text.lower().split())
Keywords(text) == {Lower(w) : w \in Range(Split(text))}

\* The collection's distance between the embeddings of a query and of a
\* stored text, in hundredths; it may exceed 1.
Distance(query, text) ==
    CASE query = "The CAT" -> (IF text = "the cat sat" THEN 40 ELSE 130)
      [] query = "loyal cat" -> (IF text = "the cat sat" THEN 90 ELSE 60)
      [] query = "cat cat" -> (IF text = "the cat sat" THEN 140 ELSE 30)
      [] OTHER -> (IF text = "the cat sat" THEN 110 ELSE 120)

\* Position of x in sequence seq.
Pos(seq, x) == CHOOSE i \in DOMAIN seq : seq[i] = x

\* The first n items of a sequence: seq[:n].
Take(seq, n) == SubSeq(seq, 1, Min(n, Len(seq)))

\* The ids in S as the index ranks them for a query: by ascending distance,
\* records at the same distance in the index's own order.
Ranked(S, query) ==
    CHOOSE s \in Orderings(S) :
        \A i, j \in DOMAIN s : i < j =>
            LET di == Distance(query, docs[s[i]].text)
                dj == Distance(query, docs[s[j]].text)
            IN  di < dj \/ (di = dj /\ Pos(tieOrder, s[i]) < Pos(tieOrder, s[j]))

\* collection.query(query_embeddings=[embedding of query], n_results, where)
\* for n_results >= 1: the n_results nearest records that match where, fewer
\* when fewer are stored.
ChromaQuery(query, n_results, where) ==
    LET failure == IF ~exists THEN "ValueError"
                   ELSE IF where # PyNone /\ Cardinality(DOMAIN where) # 1 THEN "ValueError"
                   ELSE IF dimension # 0 /\ encDim # dimension
                   THEN "InvalidDimensionException"
                   ELSE "none"
        matching == {d \in DOMAIN docs : where = PyNone \/ Matches(docs[d].metadata, where)}
        ids == IF failure = "none" THEN Take(Ranked(matching, query), n_results) ELSE <<>>
    IN  [exc |-> failure,
         ids |-> ids,
         documents |-> [i \in DOMAIN ids |-> docs[ids[i]].text],
         metadatas |-> [i \in DOMAIN ids |-> docs[ids[i]].metadata],
         distances |-> [i \in DOMAIN ids |-> Distance(query, docs[ids[i]].text)]]

\* VectorDB.search_similar / AdvancedVectorDB.search_similar
\* (query_text, n_results, where=None): the first row of collection.query.
search_similar(query_text, n_results, where) ==
    /\ cls \in Persistent
    /\ LET results == ChromaQuery(query_text, n_results, where)
       IN  last' = [op |-> "search_similar", query |-> query_text,
                    n_results |-> n_results, where |-> where, exc |-> results.exc,
                    ids |-> results.ids, documents |-> results.documents,
                    metadatas |-> results.metadatas, distances |-> results.distances]
    /\ UNCHANGED <<aws, a2a, file, tieOrder, callers, cls, encDim, strictMetadata, exists, dimension, docs>>

\* A keyword score over the words of the query, repeated words counted.
KeywordScorePerWord(query, document) ==
    LET query_keywords == Keywords(query)
        doc_keywords == Keywords(document)
    IN  IF query_keywords = {} THEN [num |-> 0, den |-> 1]
        ELSE [num |-> Cardinality(query_keywords \cap doc_keywords),
              den |-> Len(Split(query))]

\* keyword_matches / len(query_keywords) if query_keywords else 0
KeywordScore(query, document) ==
    LET query_keywords == Keywords(query)
        doc_keywords == Keywords(document)
    IN  IF query_keywords = {} THEN [num |-> 0, den |-> 1]
        ELSE [num |-> Cardinality(query_keywords \cap doc_keywords),
              den |-> Cardinality(query_keywords)]

\* A combined score with the two weights interchanged.
CombinedScoreSwapped(keyword_weight, semantic_score, keyword_score) ==
    [num |-> keyword_weight * (DistanceUnit - semantic_score) * keyword_score.den
                + (WeightUnit - keyword_weight) * keyword_score.num * DistanceUnit,
     den |-> WeightUnit * DistanceUnit * keyword_score.den]

\* (1 - keyword_weight) * (1 - semantic_score) + keyword_weight * keyword_score
CombinedScore(keyword_weight, semantic_score, keyword_score) ==
    [num |-> (WeightUnit - keyword_weight) * (DistanceUnit - semantic_score) * keyword_score.den
                + keyword_weight * keyword_score.num * DistanceUnit,
     den |-> WeightUnit * DistanceUnit * keyword_score.den]

\* a < b for fractions with positive denominators.
Less(a, b) == a.num * b.den < b.num * a.den

\* list.sort(key=combined_score, reverse=True): descending, items with equal
\* keys staying in the order they had.
SortByCombined(items) ==
    LET order == CHOOSE s \in Orderings(DOMAIN items) :
                    \A i, j \in DOMAIN s : i < j =>
                        \/ Less(items[s[j]].combined_score, items[s[i]].combined_score)
                        \/ /\ ~Less(items[s[i]].combined_score, items[s[j]].combined_score)
                           /\ s[i] < s[j]
    IN  [i \in DOMAIN items |-> items[order[i]]]

\* hybrid_search taking n_results candidates only.
hybrid_search_no_overfetch(query, n_results, keyword_weight) ==
    /\ cls = "AdvancedVectorDB"
    /\ LET semantic_results == ChromaQuery(query, n_results, PyNone)
           hybrid_results ==
               [i \in DOMAIN semantic_results.ids |->
                   LET semantic_score == semantic_results.distances[i]
                       keyword_score == KeywordScore(query, semantic_results.documents[i])
                   IN  [id |-> semantic_results.ids[i],
                        document |-> semantic_results.documents[i],
                        semantic_score |-> semantic_score,
                        keyword_score |-> keyword_score,
                        combined_score |-> CombinedScore(keyword_weight, semantic_score,
                                                         keyword_score)]]
       IN  last' = [op |-> "hybrid_search", query |-> query, n_results |-> n_results,
                    keyword_weight |-> keyword_weight, exc |-> semantic_results.exc,
                    candidates |-> semantic_results.ids,
                    results |-> Take(SortByCombined(hybrid_results), n_results),
                    total_found |-> Len(hybrid_results)]
    /\ UNCHANGED <<aws, a2a, file, tieOrder, callers, cls, encDim, strictMetadata, exists, dimension, docs>>

\* AdvancedVectorDB.hybrid_search(query, n_results, keyword_weight)
hybrid_search(query, n_results, keyword_weight) ==
    /\ cls = "AdvancedVectorDB"
    /\ LET semantic_results == ChromaQuery(query, n_results * 2, PyNone)
           hybrid_results ==
               [i \in DOMAIN semantic_results.ids |->
                   LET semantic_score == semantic_results.distances[i]
                       keyword_score == KeywordScore(query, semantic_results.documents[i])
                   IN  [id |-> semantic_results.ids[i],
                        document |-> semantic_results.documents[i],
                        semantic_score |-> semantic_score,
                        keyword_score |-> keyword_score,
                        combined_score |-> CombinedScore(keyword_weight, semantic_score,
                                                         keyword_score)]]
       IN  last' = [op |-> "hybrid_search", query |-> query, n_results |-> n_results,
                    keyword_weight |-> keyword_weight, exc |-> semantic_results.exc,
                    candidates |-> semantic_results.ids,
                    results |-> Take(SortByCombined(hybrid_results), n_results),
                    total_found |-> Len(hybrid_results)]
    /\ UNCHANGED <<aws, a2a, file, tieOrder, callers, cls, encDim, strictMetadata, exists, dimension, docs>>

\* The collections the queries run on: any of the ids of IdList stored with
\* one of the texts and one of two metadata dicts.
QueryRecords ==
    {[text |-> t, metadata |-> m, embedding |-> Embed(t, DefaultDim)] :
        t \in QueryDocTexts, m \in {MetaX, MetaXEn}}

QueryCollections == UNION {[S -> QueryRecords] : S \in SUBSET BatchIds}

InitQuery ==
    /\ cls \in Persistent
    /\ encDim \in EncoderDimsOf(cls)
    /\ strictMetadata = FALSE
    /\ exists = TRUE
    /\ docs \in QueryCollections
    /\ dimension = IF docs = EmptyDocs THEN 0 ELSE DefaultDim
    /\ last = NoCall
    /\ callers = NoCallers
    /\ tieOrder \in Orderings(BatchIds)
    /\ file = NoFile
    /\ aws = NoAws
    /\ a2a = NoA2A

NextQuery ==
    \/ \E q \in Queries, k \in 1..MaxResults, w \in {PyNone} \cup WhereArgs :
          Fresh /\ search_similar(q, k, w)
    \/ \E q \in Queries, k \in 1..MaxResults, w \in Weights :
          Fresh /\ hybrid_search(q, k, w)

SpecQuery == InitQuery /\ [][NextQuery]_vars

----------------------------------------------------------------------------
(* Export and import: a collection is exported to the file, the handle is
   opened on another collection that holds nothing, and the file is
   imported there. *)

\* The collections exported: any of the ids of IdList, each stored with a
\* text and with a metadata dict or none.
ExportRecords(dim) ==
    {[text |-> t, metadata |-> m, embedding |-> Embed(t, dim)] :
        t \in Texts, m \in {MetaX, MetaXEn, PyNone}}

InitRoundTrip ==
    /\ cls = "AdvancedVectorDB"
    /\ encDim \in EncoderDims
    /\ strictMetadata \in BOOLEAN
    /\ exists = TRUE
    /\ dimension \in {0} \cup EncoderDims
    /\ docs \in (IF dimension = 0 THEN {EmptyDocs}
                 ELSE UNION {[S -> ExportRecords(dimension)] : S \in SUBSET BatchIds})
    /\ last = NoCall
    /\ callers = NoCallers
    /\ tieOrder = <<>>
    /\ file = NoFile
    /\ aws = NoAws
    /\ a2a = NoA2A

\* AdvancedVectorDB.__init__ with the name of a collection that holds no
\* document: one that is created now, or one emptied earlier that still has
\* the dimension dim; d is the dimension of the encoder loaded.
OpenEmptyCollection(d, dim) ==
    /\ cls = "AdvancedVectorDB"
    /\ file # NoFile
    /\ last.op = "export_to_json"
    /\ encDim' = d
    /\ exists' = TRUE
    /\ dimension' = dim
    /\ docs' = EmptyDocs
    /\ last' = [op |-> "__init__", exc |-> "none", ret |-> PyNone]
    /\ UNCHANGED <<aws, a2a, file, tieOrder, callers, cls, strictMetadata>>

\* import_from_json of the file written by export_to_json.
ImportExported(failAt) ==
    /\ file # NoFile
    /\ last.op = "__init__"
    /\ AdvancedVectorDB_import_from_json(
           [i \in DOMAIN file.documents |-> JsonLoad(file.documents[i])], TRUE, failAt)

NextRoundTrip ==
    \/ \E order \in Orderings(DOMAIN docs), writable \in BOOLEAN :
          Fresh /\ AdvancedVectorDB_export_to_json(order, writable)
    \/ \E d \in EncoderDims, dim \in {0} \cup EncoderDims : OpenEmptyCollection(d, dim)
    \/ \E f \in 0..1 : ImportExported(f)

SpecRoundTrip == InitRoundTrip /\ [][NextRoundTrip]_vars

----------------------------------------------------------------------------
(* pdf_to_bedrock_kb: the Lambda function that turns uploaded PDFs into text
   objects and starts a Bedrock ingestion job for each *)

MaxRecords == 2

\* Object keys as an S3 event carries them (URL-encoded), in pieces.
Keys ==
    {<<"sample", ".", "pdf">>, <<"sample", ".", "Pdf">>,
     <<"my", "+", "file", "%2E", "pdf">>, <<"sample", ".", "txt">>,
     <<"sample", ".", "pdf", "+">>}

Buckets == {"test-bucket"}

\* urllib.parse.unquote_plus: '+' is a space, %2E is '.'.
UnquotePlus(key) ==
    [i \in DOMAIN key |-> IF key[i] = "+" THEN " "
                          ELSE IF key[i] = "%2E" THEN "." ELSE key[i]]

\* str.lower on a key.
KeyLower(key) == [i \in DOMAIN key |-> IF key[i] \in {"PDF", "Pdf"} THEN "pdf" ELSE key[i]]

\* key.endswith(ext), ext being 'pdf' or 'txt' after a dot.
EndsWith(key, ext) ==
    /\ Len(key) >= 2
    /\ key[Len(key) - 1] = "."
    /\ key[Len(key)] = ext

\* The key of the text object: '.pdf' and '.PDF' become '.txt' wherever they
\* are, and '.txt' is appended when the result does not end in it.
TextKey(original_key) ==
    LET replaced == [i \in DOMAIN original_key |->
                        IF /\ original_key[i] \in {"pdf", "PDF"}
                           /\ i > 1
                           /\ original_key[i - 1] = "."
                        THEN "txt" ELSE original_key[i]]
    IN  IF EndsWith(replaced, "txt") THEN replaced ELSE replaced \o <<".", "txt">>

\* The records of S3 events, and one record without the 's3' entry.
EventRecords ==
    {[s3 |-> [bucket |-> [name |-> b], object |-> [key |-> k]]] : b \in Buckets, k \in Keys}
        \cup {[eventSource |-> "aws:sns"]}

\* Where the processing of one record is made to fail by its collaborators:
\* s3 get_object, PyPDF2 on the bytes read, s3 put_object, or bedrock-agent
\* start_ingestion_job.
FailPoints == {"none", "get_object", "extract_text", "put_object", "start_ingestion_job"}

\* One call of an AWS API: which, on what, and whether it went through.
ApiCall(api, bucket, key, ok) == [api |-> api, bucket |-> bucket, key |-> key, ok |-> ok]

process_pdf_event_reads_first(calls, event_record, failAt) ==
    LET bucket == event_record.s3.bucket.name
        key == UnquotePlus(event_record.s3.object.key)
    IN  IF "s3" \notin DOMAIN event_record
        THEN [calls |-> calls,
              result |-> [status |-> "failed", error |-> "KeyError", key |-> <<"unknown">>]]
        ELSE [calls |-> Append(calls, ApiCall("get_object", bucket, key, TRUE)),
              result |-> [status |-> "skipped", reason |-> "Not a PDF file", key |-> key]]

\* process_pdf_event(event_record), the AWS calls made so far being calls:
\* the calls after it and the dict it returns.
process_pdf_event(calls, event_record, failAt) ==
    LET bucket == event_record.s3.bucket.name
        key == UnquotePlus(event_record.s3.object.key)
        text_key == TextKey(key)
        document_id == <<bucket, "_">> \o key
        failed(log, error) ==
            [calls |-> log, result |-> [status |-> "failed", error |-> error, key |-> key]]
        read == Append(calls, ApiCall("get_object", bucket, key, failAt # "get_object"))
        stored == Append(read, ApiCall("put_object", bucket, text_key, failAt # "put_object"))
        ingested == Append(stored, ApiCall("start_ingestion_job", bucket, key,
                                           failAt # "start_ingestion_job"))
    IN  IF "s3" \notin DOMAIN event_record
        THEN [calls |-> calls,
              result |-> [status |-> "failed", error |-> "KeyError", key |-> <<"unknown">>]]
        ELSE IF ~EndsWith(KeyLower(key), "pdf")
        THEN [calls |-> calls,
              result |-> [status |-> "skipped", reason |-> "Not a PDF file", key |-> key]]
        ELSE IF failAt = "get_object" THEN failed(read, "ClientError")
        ELSE IF failAt = "extract_text" THEN failed(read, "PdfReadError")
        ELSE IF failAt = "put_object" THEN failed(stored, "ClientError")
        ELSE IF failAt = "start_ingestion_job" THEN failed(ingested, "ClientError")
        ELSE [calls |-> ingested,
              result |-> [status |-> "success", bucket |-> bucket, original_key |-> key,
                          processed_key |-> text_key, document_id |-> document_id]]

\* The module as loaded: KNOWLEDGE_BASE_ID and DATA_SOURCE_ID are read from
\* os.environ once, at import; each is TRUE when set to a non-empty string.
EnvNames == {"KNOWLEDGE_BASE_ID", "DATA_SOURCE_ID"}

InitLambda ==
    /\ cls = "pdf_to_bedrock_kb"
    /\ encDim = DefaultDim
    /\ strictMetadata = FALSE
    /\ exists = FALSE
    /\ dimension = 0
    /\ docs = EmptyDocs
    /\ last = NoCall
    /\ callers = NoCallers
    /\ tieOrder = <<>>
    /\ file = NoFile
    /\ \E environ \in [EnvNames -> BOOLEAN] :
          aws = [imported |-> TRUE, environ |-> environ, patched |-> FALSE,
                 KNOWLEDGE_BASE_ID |-> environ["KNOWLEDGE_BASE_ID"],
                 DATA_SOURCE_ID |-> environ["DATA_SOURCE_ID"],
                 calls |-> <<>>]
    /\ a2a = NoA2A

\* TestPDFToBedrockKB.setUp, before the call of a test: patch.dict sets both
\* names in os.environ.
setUp ==
    /\ cls = "pdf_to_bedrock_kb"
    /\ ~aws.patched
    /\ last = NoCall
    /\ aws' = [aws EXCEPT !.patched = TRUE, !.environ = [n \in EnvNames |-> TRUE]]
    /\ UNCHANGED <<a2a, file, tieOrder, callers, cls, encDim, strictMetadata, exists,
                   dimension, docs, last>>

\* A direct call of process_pdf_event on one record.
process_pdf_event_call(event_record, failAt) ==
    /\ cls = "pdf_to_bedrock_kb"
    /\ LET r == process_pdf_event(aws.calls, event_record, failAt)
       IN  /\ aws' = [aws EXCEPT !.calls = r.calls]
           /\ last' = [op |-> "process_pdf_event", event_record |-> event_record,
                       exc |-> "none", ret |-> r.result]
    /\ UNCHANGED <<a2a, file, tieOrder, callers, cls, encDim, strictMetadata, exists,
                   dimension, docs>>

\* The loop of lambda_handler over the records, record i onwards.
RECURSIVE ProcessRecords(_, _, _, _)
ProcessRecords(run, records, outcomes, i) ==
    IF i > Len(records) THEN run
    ELSE LET r == process_pdf_event(run.calls, records[i], outcomes[i])
         IN  ProcessRecords([calls |-> r.calls, results |-> Append(run.results, r.result)],
                            records, outcomes, i + 1)

\* sum(1 for r in results if r.get('status') == status)
CountStatus(results, status) ==
    Cardinality({i \in DOMAIN results : results[i].status = status})

\* The events: an S3 event with up to MaxRecords records, a direct
\* invocation with bucket and key, and one with neither.
S3Events ==
    {[Records |-> records] : records \in UNION {[1..n -> EventRecords] : n \in 0..MaxRecords}}
DirectEvents == {[bucket |-> b, key |-> k] : b \in Buckets, k \in Keys}
OtherEvents == {[bucket |-> b] : b \in Buckets}
Events == S3Events \cup DirectEvents \cup OtherEvents

\* The records lambda_handler processes for an event: those of an S3 event,
\* or the one simulated for a direct invocation with bucket and key.
RecordsOf(event) ==
    IF "Records" \in DOMAIN event THEN event.Records
    ELSE IF {"bucket", "key"} \subseteq DOMAIN event
    THEN <<[s3 |-> [bucket |-> [name |-> event.bucket], object |-> [key |-> event.key]]]>>
    ELSE <<>>

\* lambda_handler(event, context); outcomes[i] is where the processing of
\* record i fails.  The body is the dict that is dumped to JSON.
lambda_handler(event, outcomes) ==
    /\ cls = "pdf_to_bedrock_kb"
    /\ LET valid == "Records" \in DOMAIN event \/ {"bucket", "key"} \subseteq DOMAIN event
           records == RecordsOf(event)
           run == ProcessRecords([calls |-> aws.calls, results |-> <<>>], records, outcomes, 1)
           response ==
               IF ~aws.KNOWLEDGE_BASE_ID \/ ~aws.DATA_SOURCE_ID
               THEN [statusCode |-> 500,
                     body |-> [error |-> "Missing required environment variables"]]
               ELSE IF ~valid
               THEN [statusCode |-> 400, body |-> [error |-> "Invalid event format"]]
               ELSE [statusCode |-> 200,
                     body |-> [message |-> "Processing complete",
                               summary |-> [total |-> Len(run.results),
                                            success |-> CountStatus(run.results, "success"),
                                            failed |-> CountStatus(run.results, "failed"),
                                            skipped |-> CountStatus(run.results, "skipped")],
                               results |-> run.results]]
       IN  /\ DOMAIN outcomes = DOMAIN records
           /\ aws' = [aws EXCEPT !.calls = IF response.statusCode = 200 THEN run.calls ELSE @]
           /\ last' = [op |-> "lambda_handler", event |-> event, exc |-> "none",
                       ret |-> response]
    /\ UNCHANGED <<a2a, file, tieOrder, callers, cls, encDim, strictMetadata, exists,
                   dimension, docs>>

NextLambda ==
    \/ setUp
    \/ \E event_record \in EventRecords, failAt \in FailPoints :
          Fresh /\ process_pdf_event_call(event_record, failAt)
    \/ \E event \in Events :
          \E outcomes \in [DOMAIN RecordsOf(event) -> FailPoints] :
              Fresh /\ lambda_handler(event, outcomes)

SpecLambda == InitLambda /\ [][NextLambda]_vars

----------------------------------------------------------------------------
(* RedundantA2AProvider: one tool call tried on several servers in turn.
   execute_with_failover is a coroutine; it is suspended at each
   provider.execute_tool it awaits, where other calls on the same object run. *)

MaxProviders == 3
MaxTasks == 2

Tasks == 1..MaxTasks

\* A task that has not called yet.
Idle == [pc |-> "idle"]

InitFailover ==
    /\ cls = "RedundantA2AProvider"
    /\ encDim = DefaultDim
    /\ strictMetadata = FALSE
    /\ exists = FALSE
    /\ dimension = 0
    /\ docs = EmptyDocs
    /\ last = NoCall
    /\ callers = NoCallers
    /\ tieOrder = <<>>
    /\ file = NoFile
    /\ aws = NoAws
    /\ \E n \in 0..MaxProviders :
          a2a = [providers |-> n, current_index |-> 0, calls |-> [t \in Tasks |-> Idle]]

\* provider_index of iteration i of the loop, from self.current_index as it
\* is when the iteration starts.
ProviderIndex(i) == (a2a.current_index + i) % a2a.providers

\* execute_with_failover called by task t, up to its first await; with no
\* provider the loop body never runs and the call raises.
execute_with_failover_call(t) ==
    /\ cls = "RedundantA2AProvider"
    /\ a2a.calls[t].pc # "awaiting"
    /\ LET call == IF a2a.providers = 0
                   THEN [pc |-> "raised", start |-> a2a.current_index, tried |-> <<>>]
                   ELSE [pc |-> "awaiting", start |-> a2a.current_index, i |-> 0,
                         provider_index |-> ProviderIndex(0), tried |-> <<ProviderIndex(0)>>]
       IN  /\ a2a' = [a2a EXCEPT !.calls[t] = call]
           /\ last' = [op |-> "execute_with_failover", task |-> t,
                       exc |-> IF call.pc = "raised" THEN "Exception" ELSE "none",
                       ret |-> PyNone]
    /\ UNCHANGED <<aws, file, tieOrder, callers, cls, encDim, strictMetadata, exists,
                   dimension, docs>>

\* The awaited provider.execute_tool of task t completes, with a result (ok)
\* or an exception: the call returns after setting current_index, or goes on
\* to the next iteration, or raises after the last one.
execute_with_failover_resume(t, ok) ==
    /\ cls = "RedundantA2AProvider"
    /\ a2a.calls[t].pc = "awaiting"
    /\ LET call == a2a.calls[t]
           i == call.i + 1
           next == IF ok THEN [pc |-> "returned", start |-> call.start, tried |-> call.tried,
                               result |-> call.provider_index]
                   ELSE IF i < a2a.providers
                   THEN [call EXCEPT !.i = i, !.provider_index = ProviderIndex(i),
                                     !.tried = Append(@, ProviderIndex(i))]
                   ELSE [pc |-> "raised", start |-> call.start, tried |-> call.tried]
       IN  /\ a2a' = [a2a EXCEPT !.calls[t] = next,
                                 !.current_index = IF ok THEN call.provider_index ELSE @]
           /\ last' = [op |-> "execute_with_failover", task |-> t,
                       exc |-> IF next.pc = "raised" THEN "Exception" ELSE "none",
                       ret |-> IF ok THEN [from |-> call.provider_index] ELSE PyNone]
    /\ UNCHANGED <<aws, file, tieOrder, callers, cls, encDim, strictMetadata, exists,
                   dimension, docs>>

NextFailover ==
    \/ \E t \in Tasks : execute_with_failover_call(t)
    \/ \E t \in Tasks, ok \in BOOLEAN : execute_with_failover_resume(t, ok)

SpecFailover == InitFailover /\ [][NextFailover]_vars

----------------------------------------------------------------------------
(* LoadBalancedA2AProvider: tool calls spread over several servers.  The
   servers have pairwise distinct urls and are named by their index. *)

MaxInFlight == 3

BalancerTasks == 1..MaxInFlight

Strategies == {"round-robin", "random", "least-loaded", "weighted"}

InitBalancer ==
    /\ cls = "LoadBalancedA2AProvider"
    /\ encDim = DefaultDim
    /\ strictMetadata = FALSE
    /\ exists = FALSE
    /\ dimension = 0
    /\ docs = EmptyDocs
    /\ last = NoCall
    /\ callers = NoCallers
    /\ tieOrder = <<>>
    /\ file = NoFile
    /\ aws = NoAws
    /\ \E n \in 0..MaxProviders, strategy \in Strategies :
          a2a = [providers |-> n, strategy |-> strategy, current_index |-> 0,
                 load_counters |-> [p \in 0..(n - 1) |-> 0],
                 calls |-> [t \in BalancerTasks |-> Idle]]

\* min(self.load_counters, key=self.load_counters.get): the first url, in
\* the order of setup, among those of lowest load.
MinLoad(load_counters) ==
    CHOOSE p \in DOMAIN load_counters :
        /\ \A q \in DOMAIN load_counters : load_counters[p] <= load_counters[q]
        /\ \A q \in DOMAIN load_counters : load_counters[q] = load_counters[p] => p <= q

\* _select_provider(); choice is what random.choice gives.
SelectProvider(choice) ==
    IF a2a.strategy = "round-robin" THEN a2a.current_index
    ELSE IF a2a.strategy = "random" THEN choice
    ELSE IF a2a.strategy = "least-loaded" THEN MinLoad(a2a.load_counters)
    ELSE 0

\* execute_tool called by task t, up to its await: the provider is selected
\* and its counter incremented.  With no provider the selection raises.
execute_tool_call(t, choice) ==
    /\ cls = "LoadBalancedA2AProvider"
    /\ a2a.calls[t].pc # "awaiting"
    /\ a2a.providers = 0 \/ choice < a2a.providers
    /\ LET provider == SelectProvider(choice)
       IN  /\ a2a' = IF a2a.providers = 0
                     THEN [a2a EXCEPT !.calls[t] = [pc |-> "raised"]]
                     ELSE [a2a EXCEPT
                             !.calls[t] = [pc |-> "awaiting", provider |-> provider],
                             !.load_counters[provider] = @ + 1,
                             !.current_index = IF a2a.strategy = "round-robin"
                                               THEN (@ + 1) % a2a.providers ELSE @]
           /\ last' = [op |-> "execute_tool", task |-> t,
                       exc |-> IF a2a.providers = 0 THEN "IndexError" ELSE "none",
                       ret |-> PyNone]
    /\ UNCHANGED <<aws, file, tieOrder, callers, cls, encDim, strictMetadata, exists,
                   dimension, docs>>

execute_tool_done_leaks(t, ok) ==
    /\ cls = "LoadBalancedA2AProvider"
    /\ a2a.calls[t].pc = "awaiting"
    /\ LET provider == a2a.calls[t].provider
       IN  /\ a2a' = [a2a EXCEPT
                         !.calls[t] = [pc |-> IF ok THEN "returned" ELSE "raised"],
                         !.load_counters[provider] = IF ok THEN @ - 1 ELSE @]
           /\ last' = [op |-> "execute_tool", task |-> t,
                       exc |-> IF ok THEN "none" ELSE "Exception", ret |-> PyNone]
    /\ UNCHANGED <<aws, file, tieOrder, callers, cls, encDim, strictMetadata, exists,
                   dimension, docs>>

\* The awaited provider.execute_tool of task t completes, with a result (ok)
\* or an exception; the finally clause decrements the counter either way.
execute_tool_done(t, ok) ==
    /\ cls = "LoadBalancedA2AProvider"
    /\ a2a.calls[t].pc = "awaiting"
    /\ LET provider == a2a.calls[t].provider
       IN  /\ a2a' = [a2a EXCEPT
                         !.calls[t] = [pc |-> IF ok THEN "returned" ELSE "raised"],
                         !.load_counters[provider] = @ - 1]
           /\ last' = [op |-> "execute_tool", task |-> t,
                       exc |-> IF ok THEN "none" ELSE "Exception", ret |-> PyNone]
    /\ UNCHANGED <<aws, file, tieOrder, callers, cls, encDim, strictMetadata, exists,
                   dimension, docs>>

NextBalancer ==
    \/ \E t \in BalancerTasks, choice \in 0..(MaxProviders - 1) : execute_tool_call(t, choice)
    \/ \E t \in BalancerTasks, ok \in BOOLEAN : execute_tool_done(t, ok)

SpecBalancer == InitBalancer /\ [][NextBalancer]_vars

----------------------------------------------------------------------------
(* Claims on the CRUD calls *)

\* The mapping a metadata argument stands for: omitted means {}.
ArgMeta(m) == IF m = PyNone THEN EmptyMeta ELSE m

AddOps == {"add_document", "add"}
UpdateOps == {"update_document", "update"}
DeleteOps == {"delete_document", "delete"}

\* C1: an add (VectorDB.add_document, SimpleVectorDB.add) with an id that is
\* already stored succeeds, leaves that id holding the text and metadata of
\* this second call, and leaves count() as it was.  Stated for the calls
\* that pass a metadata dict; the default of an omitted one is C2's subject.
C1_UpsertOverwrites ==
    [][(last'.op \in AddOps /\ last'.id \in DOMAIN docs /\ last'.metadata # PyNone) =>
          /\ last'.exc = "none"
          /\ last'.id \in DOMAIN docs'
          /\ docs'[last'.id].text = last'.text
          /\ docs'[last'.id].metadata = ArgMeta(last'.metadata)
          /\ Cardinality(DOMAIN docs') = Cardinality(DOMAIN docs)]_vars

\* C2: after add_document(t, m) with a generated id, get_document of the
\* returned id is {id, document: t, metadata: m} (m = {} when omitted), a
\* value with no embedding in it.
C2_RoundTrip ==
    (last.op = "add_document" /\ last.generated) =>
        /\ last.exc = "none"
        /\ GetResult(last.ret) = [id |-> last.ret, document |-> last.text,
                                  metadata |-> ArgMeta(last.metadata)]

\* C3: a delete (VectorDB.delete_document, SimpleVectorDB.delete) of an id
\* that is not stored returns False, raises nothing and changes no document.
C3_DeleteAbsentReturnsFalse ==
    [][(last'.op \in DeleteOps /\ last'.id \notin DOMAIN docs) =>
          /\ last'.ret = FALSE
          /\ last'.exc = "none"
          /\ docs' = docs]_vars

\* C4: an update (VectorDB.update_document, SimpleVectorDB.update) of an id
\* that is not stored returns False, raises nothing and creates no document.
C4_UpdateAbsentReturnsFalse ==
    [][(last'.op \in UpdateOps /\ last'.id \notin DOMAIN docs) =>
          /\ last'.ret = FALSE
          /\ last'.exc = "none"
          /\ docs' = docs]_vars

\* C7: reset_collection called while the collection does not exist returns
\* True and leaves an empty, usable collection.
C7_ResetMissingSucceeds ==
    (last.op = "reset_collection" /\ ~last.existed) =>
        /\ last.ret = TRUE
        /\ exists
        /\ docs = EmptyDocs

\* C8: delete_by_metadata(p) removes exactly the documents whose metadata
\* holds every key/value pair of p, leaves every other document as it was,
\* and lowers count() by the number of matching documents.
C8_FilterCorrectness ==
    [][last'.op = "delete_by_metadata" =>
          /\ DOMAIN docs' = {d \in DOMAIN docs : ~Matches(docs[d].metadata, last'.where)}
          /\ \A d \in DOMAIN docs' : docs'[d] = docs[d]
          /\ Cardinality(DOMAIN docs') = Cardinality(DOMAIN docs) - last'.matched]_vars

----------------------------------------------------------------------------
(* Claims on insertion *)

BatchOps == {"add_documents_batch", "AdvancedVectorDB.add_documents_batch"}
InsertOps == AddOps \cup BatchOps

\* The call recorded in l passes a list whose length differs from texts'.
LengthMismatch(l) ==
    \/ l.idsGiven /\ Len(l.ids) # Len(l.texts)
    \/ l.metasGiven /\ Len(l.metadatas) # Len(l.texts)

\* C6: a batch add whose metadatas or ids differ in length from texts fails
\* before any embedding is computed and leaves the collection unchanged.
C6_MismatchFailsBeforeEmbedding ==
    [][(last'.op \in BatchOps /\ LengthMismatch(last')) =>
          /\ last'.exc # "none"
          /\ last'.embedded = 0
          /\ docs' = docs
          /\ dimension' = dimension]_vars

\* The offsets range(0, n, c) yields: 0, c, 2c, ... below n.
ChunkOffsets(n, c) == [k \in 1..((n + c - 1) \div c) |-> (k - 1) * c]

\* C9 as claimed: a fully successful AdvancedVectorDB.add_documents_batch of n
\* items with batch_size c commits the consecutive chunks at offsets
\* 0, c, 2c, ..., that is ceil(n/c) commits, and count() grows by exactly n.
C9_ChunkingCountGrowsByN ==
    [][(last'.op = "AdvancedVectorDB.add_documents_batch" /\ last'.exc = "none") =>
          /\ last'.attempted = ChunkOffsets(Len(last'.texts), last'.batch_size)
          /\ last'.commits = Len(last'.attempted)
          /\ Cardinality(DOMAIN docs') = Cardinality(DOMAIN docs) + Len(last'.texts)]_vars

\* The ids of the n items of the call recorded in l.
ItemIds(l) == {l.ids[p] : p \in 1..Min(Len(l.texts), Len(l.ids))}

\* C9 as amended: the commits are as claimed, and count() grows by exactly n
\* provided the n ids are pairwise distinct and none of them was stored
\* before the call.
C9_ChunkingCountGrowsByFreshIds ==
    [][(last'.op = "AdvancedVectorDB.add_documents_batch" /\ last'.exc = "none") =>
          /\ last'.attempted = ChunkOffsets(Len(last'.texts), last'.batch_size)
          /\ last'.commits = Len(last'.attempted)
          /\ (Cardinality(ItemIds(last')) = Len(last'.texts)
                /\ ItemIds(last') \cap DOMAIN docs = {})
             => Cardinality(DOMAIN docs') = Cardinality(DOMAIN docs) + Len(last'.texts)]_vars

\* A full success in three items and two chunks, the second one shorter, all
\* three ids new: every stored record is one of this call's.
C9_Witness ==
    /\ last.op = "AdvancedVectorDB.add_documents_batch"
    /\ last.exc = "none"
    /\ Len(last.texts) = 3
    /\ last.batch_size = 2
    /\ last.commits = 2
    /\ Len(last.metadatas) = 3
    /\ DOMAIN docs = ItemIds(last)
    /\ Cardinality(DOMAIN docs) = 3
    /\ \A p \in 1..3 : docs[last.ids[p]].text = "the cat sat"

\* The call recorded in l computes at least one embedding to insert.
HasEmbedding(l) == l.op \in AddOps \/ (l.op \in BatchOps /\ Len(l.texts) > 0)

\* The first collection.add of the call recorded in l is acceptable to the
\* store but for the dimension: lists of equal length, distinct ids, and no
\* empty metadata dict on a build that rejects one.
FirstAddWellFormed(l) ==
    IF l.op \in AddOps THEN l.metadata # PyNone \/ ~strictMetadata
    ELSE LET whole == l.op = "add_documents_batch"
             t == IF whole THEN l.texts ELSE Slice(l.texts, 0, l.batch_size)
             i == IF whole THEN l.ids ELSE Slice(l.ids, 0, l.batch_size)
             m == IF whole THEN l.metadatas ELSE Slice(l.metadatas, 0, l.batch_size)
         IN  /\ Len(i) = Len(t)
             /\ Cardinality(Range(i)) = Len(i)
             /\ Len(m) = Len(t)
             /\ l.metasGiven \/ ~strictMetadata
             /\ l.exc # "EncoderError"

ItemRecord(l, p) ==
    [text |-> l.texts[p],
     metadata |-> IF p <= Len(l.metadatas) THEN l.metadatas[p] ELSE PyNone]

\* C10: when chunk j of AdvancedVectorDB.add_documents_batch fails, the
\* chunks before it were attempted in order and committed, the failing chunk
\* is the last one attempted, every item of chunks 0..j-1 is stored as that
\* item (the later item when an id recurs), and nothing else in the
\* collection has changed: no item of chunk j or later is stored.
C10_PartialFailureKeepsEarlierChunks ==
    [][(last'.op = "AdvancedVectorDB.add_documents_batch" /\ last'.exc # "none") =>
          LET l == last'
              j == Len(l.attempted) - 1
              done == 1..(j * l.batch_size)
              lastOf(p) == \A q \in done : q > p => l.ids[q] # l.ids[p]
          IN  /\ l.attempted = SubSeq(ChunkOffsets(Len(l.texts), l.batch_size), 1, j + 1)
              /\ l.commits = j
              /\ \A p \in done :
                    /\ l.ids[p] \in DOMAIN docs'
                    /\ lastOf(p) =>
                          /\ docs'[l.ids[p]].text = ItemRecord(l, p).text
                          /\ docs'[l.ids[p]].metadata = ItemRecord(l, p).metadata
              /\ \A d \in DOMAIN docs \cup DOMAIN docs' :
                    d \notin {l.ids[p] : p \in done} =>
                        d \in DOMAIN docs /\ d \in DOMAIN docs' /\ docs'[d] = docs[d]]_vars

----------------------------------------------------------------------------
(* Claims on failure reporting *)

IngestOps == {"AdvancedVectorDB.add_documents_batch", "add_documents_from_csv",
              "import_from_json"}

\* The exception that ended the call recorded in l, raised or swallowed.
Failure(l) == IF "swallowed" \in DOMAIN l /\ l.swallowed # "none" THEN l.swallowed ELSE l.exc

\* What a failed ingestion hands to its caller: add_documents_batch and
\* add_documents_from_csv let the exception of the encoder or of
\* collection.add through as it is; import_from_json returns False.
FailureReport(l) ==
    IF l.op = "import_from_json" THEN [ret |-> l.ret]
    ELSE [raised |-> l.exc]

\* C11: when a chunk of a batch ingestion fails, what the caller receives
\* carries the number of fully committed items and the index of the failing
\* chunk.
C11_FailureReportsProgress ==
    [][(last'.op \in IngestOps /\ Failure(last') # "none" /\ Len(last'.attempted) > 0) =>
          LET r == FailureReport(last')
          IN  /\ {"committed", "chunk"} \subseteq DOMAIN r
              /\ r.committed = last'.commits * last'.batch_size
              /\ r.chunk = Len(last'.attempted) - 1]_vars

\* The operations for which no boolean or None return stands for a failure.
PropagatingOps == {"get_document", "delete_by_metadata", "clear_collection",
                   "reset_collection", "export_to_json", "import_from_json"}

\* C12: get, delete_by_filter, clear, reset, export and import never turn an
\* error of the embedding gateway or of the persistence layer into a normal
\* return: no such call ends with an exception swallowed.
C12_UpstreamFailurePropagates ==
    [][last'.op \in PropagatingOps => last'.swallowed = "none"]_vars

----------------------------------------------------------------------------
(* Claims on concurrent callers *)

\* The calls in sequence calls made one after the other from collection col,
\* after the results so far.
RECURSIVE RunCalls(_, _, _)
RunCalls(col, calls, results) ==
    IF calls = <<>> THEN [col |-> col, results |-> results]
    ELSE LET r == Execute(col, Head(calls))
         IN  RunCalls(r.col, Tail(calls), Append(results, r.ret))

\* What the two callers see and leave when clear_collection runs as one unit
\* after the first k calls of the second caller.
SerialOutcome(col, program, k) ==
    LET before == RunCalls(col, SubSeq(program, 1, k), <<>>)
        after == RunCalls(ClearWhole(before.col), SubSeq(program, k + 1, Len(program)),
                          before.results)
    IN  [docs |-> after.col.docs, results |-> after.results, cleared |-> TRUE]

BothDone == callers.pc = "done" /\ Len(callers.results) = Len(callers.program)

\* C13: whatever the interleaving of clear_collection with the other caller's
\* add, get and count calls, the values returned and the final collection
\* are those of some serial order of the calls.
C13_ClearIsAtomic ==
    BothDone =>
        [docs |-> docs, results |-> callers.results, cleared |-> callers.cleared]
            \in {SerialOutcome(callers.initial, callers.program, k) :
                    k \in 0..Len(callers.program)}

----------------------------------------------------------------------------
(* Claims on update *)

\* C14: VectorDB.update_document with neither text nor metadata returns
\* False and writes nothing; a failed update writes nothing; an update of a
\* stored document fails only when the collection is gone or the new
\* embedding has another dimension; a successful update of a stored document
\* with metadata only sets the given metadata keys and leaves text and
\* embedding as they were, and with a text stores that text and the embedding
\* generated from it; no other document changes.
C14_UpdateFrame ==
    [][last'.op = "update_document" =>
          LET l == last'
              id == l.id
          IN  /\ (l.text = NoText /\ l.metadata = PyNone) => l.ret = FALSE
              /\ l.ret = FALSE => (docs' = docs /\ dimension' = dimension)
              /\ (id \in DOMAIN docs /\ exists /\ (l.text # NoText \/ l.metadata # PyNone)
                    /\ (l.text = NoText \/ encDim = dimension)) => l.ret = TRUE
              /\ DOMAIN docs' = DOMAIN docs
              /\ \A d \in DOMAIN docs \ {id} : docs'[d] = docs[d]
              /\ (l.ret = TRUE /\ id \in DOMAIN docs) =>
                    /\ IF l.text = NoText
                       THEN /\ docs'[id].text = docs[id].text
                            /\ docs'[id].embedding = docs[id].embedding
                       ELSE /\ docs'[id].text = l.text
                            /\ docs'[id].embedding = GenerateEmbedding(l.text)
                    /\ IF l.metadata = PyNone
                       THEN docs'[id].metadata = docs[id].metadata
                       ELSE \A k \in DOMAIN l.metadata :
                               /\ k \in DOMAIN docs'[id].metadata
                               /\ docs'[id].metadata[k] = l.metadata[k]]_vars

\* A stored document after a successful update with a new text and no
\* metadata: it holds the new text, the embedding of the new text and the
\* metadata it was added with.
C14_Witness ==
    /\ last.op = "update_document"
    /\ last.ret = TRUE
    /\ last.had
    /\ last.text = "dogs are loyal"
    /\ last.metadata = PyNone
    /\ docs[last.id].text = "dogs are loyal"
    /\ docs[last.id].embedding = GenerateEmbedding("dogs are loyal")
    /\ docs[last.id].metadata = MetaXEn

----------------------------------------------------------------------------
(* Claims on the query engine *)

\* Document id a sorts before document id b.
IdLess(a, b) == Pos(IdList, a) < Pos(IdList, b)

\* A stored metadata satisfies every key/value pair of a filter.
Satisfies(meta, where) ==
    where = PyNone
    \/ (meta # PyNone /\ \A k \in DOMAIN where : k \in DOMAIN meta /\ meta[k] = where[k])

\* C15: search_similar returns at most k results, each a stored document
\* that satisfies the metadata filter, in ascending order of distance, and
\* in ascending order of document id among results at the same distance.
C15_SearchSortedWithIdTieBreak ==
    [][(last'.op = "search_similar" /\ last'.exc = "none") =>
          LET l == last'
          IN  /\ Len(l.ids) <= l.n_results
              /\ \A i \in DOMAIN l.ids :
                    /\ l.ids[i] \in DOMAIN docs
                    /\ l.documents[i] = docs[l.ids[i]].text
                    /\ l.metadatas[i] = docs[l.ids[i]].metadata
                    /\ l.distances[i] = Distance(l.query, docs[l.ids[i]].text)
                    /\ Satisfies(docs[l.ids[i]].metadata, l.where)
              /\ \A i, j \in DOMAIN l.ids : i < j =>
                    \/ l.distances[i] < l.distances[j]
                    \/ (l.distances[i] = l.distances[j] /\ IdLess(l.ids[i], l.ids[j]))]_vars

\* The ids of a list of result items, in order.
ResultIds(results) == [i \in DOMAIN results |-> results[i].id]

\* C16: with keyword_weight 0 hybrid_search(q, k) returns the ids
\* search_similar(q, k) returns, in the same order; with keyword_weight 1 a
\* candidate with a strictly larger keyword score than another is returned
\* whenever the other is, and before it.
C16_HybridWeightBounds ==
    [][(last'.op = "hybrid_search" /\ last'.exc = "none") =>
          LET l == last'
              ids == ResultIds(l.results)
              ks(d) == KeywordScore(l.query, docs[d].text)
          IN  /\ l.keyword_weight = 0 =>
                    ids = ChromaQuery(l.query, l.n_results, PyNone).ids
              /\ l.keyword_weight = WeightUnit =>
                    \A a, b \in Range(l.candidates) :
                        (Less(ks(b), ks(a)) /\ b \in Range(ids)) =>
                            (a \in Range(ids) /\ Pos(ids, a) < Pos(ids, b))]_vars

\* keyword_weight 1 on a query whose nearer candidate shares no word with
\* it: the farther candidate, which shares one, is returned first.
C16_Witness ==
    /\ last.op = "hybrid_search"
    /\ last.exc = "none"
    /\ last.keyword_weight = WeightUnit
    /\ Len(last.results) = 2
    /\ last.results[1].semantic_score > last.results[2].semantic_score
    /\ Less(last.results[2].keyword_score, last.results[1].keyword_score)

\* C17: every item hybrid_search returns, for a keyword_weight within
\* [0, 1], reports semantic_score = 1 - distance of that candidate.
C17_SemanticScoreIsOneMinusDistance ==
    [][(last'.op = "hybrid_search" /\ last'.exc = "none"
          /\ last'.keyword_weight \in 0..WeightUnit) =>
          \A i \in DOMAIN last'.results :
              last'.results[i].semantic_score =
                  DistanceUnit - Distance(last'.query, docs[last'.results[i].id].text)]_vars

\* The combined score of candidate d in the call recorded in l.
CombinedOf(l, d) ==
    CombinedScore(l.keyword_weight, Distance(l.query, docs[d].text),
                  KeywordScore(l.query, docs[d].text))

\* C18: hybrid_search(q, k, w) takes as candidates what search_similar(q, 2k)
\* returns, returns min(k, number of candidates) of them in non-increasing
\* order of combined score, and leaves out no candidate whose combined score
\* is strictly greater than a returned one's.
C18_HybridTopK ==
    [][(last'.op = "hybrid_search" /\ last'.exc = "none") =>
          LET l == last'
              ids == ResultIds(l.results)
          IN  /\ l.candidates = ChromaQuery(l.query, 2 * l.n_results, PyNone).ids
              /\ l.total_found = Len(l.candidates)
              /\ Len(ids) = Min(l.n_results, Len(l.candidates))
              /\ Range(ids) \subseteq Range(l.candidates)
              /\ Cardinality(Range(ids)) = Len(ids)
              /\ \A i \in DOMAIN ids :
                    l.results[i].combined_score = CombinedOf(l, ids[i])
              /\ \A i, j \in DOMAIN ids : i < j =>
                    ~Less(CombinedOf(l, ids[i]), CombinedOf(l, ids[j]))
              /\ \A o \in Range(l.candidates) \ Range(ids) : \A i \in DOMAIN ids :
                    ~Less(CombinedOf(l, ids[i]), CombinedOf(l, o))]_vars

\* Three stored documents, k = 1: two candidates are fetched, the one
\* returned is not the nearest, and the nearest is left out with a smaller
\* combined score.
C18_Witness ==
    /\ last.op = "hybrid_search"
    /\ last.exc = "none"
    /\ last.n_results = 1
    /\ Cardinality(DOMAIN docs) = 3
    /\ Len(last.candidates) = 2
    /\ Len(last.results) = 1
    /\ last.results[1].id = last.candidates[2]
    /\ Less(CombinedOf(last, last.candidates[1]), last.results[1].combined_score)

\* Two fractions with positive denominators are equal.
SameFraction(a, b) == a.num * b.den = b.num * a.den

\* C19: for every candidate of hybrid_search, keyword_score is the number of
\* distinct lowercased query words that are among the document's lowercased
\* words, over the number of distinct lowercased query words, 0 for a query
\* without words, and within [0, 1]; combined_score is
\* (1 - keyword_weight) * (1 - distance) + keyword_weight * keyword_score.
C19_ScoreFormulas ==
    [][(last'.op = "hybrid_search" /\ last'.exc = "none") =>
          \A i \in DOMAIN last'.results :
              LET l == last'
                  item == l.results[i]
                  q == {Lower(w) : w \in Range(Split(l.query))}
                  d == {Lower(w) : w \in Range(Split(docs[item.id].text))}
                  distance == Distance(l.query, docs[item.id].text)
                  ks == item.keyword_score
                  cs == item.combined_score
              IN  /\ item.document = docs[item.id].text
                  /\ ks.den > 0 /\ cs.den > 0
                  /\ q = {} => ks.num = 0
                  /\ q # {} => ks.num * Cardinality(q) = Cardinality(q \cap d) * ks.den
                  /\ 0 <= ks.num /\ ks.num <= ks.den
                  /\ cs.num * (WeightUnit * DistanceUnit * ks.den) =
                        cs.den * ((WeightUnit - l.keyword_weight) * (DistanceUnit - distance) * ks.den
                                    + l.keyword_weight * ks.num * DistanceUnit)]_vars

\* A query with a repeated word and different case from the stored text:
\* one distinct query word, found in the document, score 1/1, and a
\* distance above 1 entering the combined score.
C19_Witness ==
    /\ last.op = "hybrid_search"
    /\ last.exc = "none"
    /\ last.query = "cat cat"
    /\ last.keyword_weight = 3
    /\ \E i \in DOMAIN last.results :
          /\ last.results[i].document = "the cat sat"
          /\ last.results[i].keyword_score = [num |-> 1, den |-> 1]
          /\ last.results[i].semantic_score > DistanceUnit
          /\ Less([num |-> 0, den |-> 1], last.results[i].combined_score)

\* C20: hybrid_search with keyword_weight outside [0, 1] fails and returns
\* no ranking.
C20_WeightOutOfRangeRejected ==
    [][(last'.op = "hybrid_search"
          /\ (last'.keyword_weight < 0 \/ last'.keyword_weight > WeightUnit)) =>
          /\ last'.exc # "none"
          /\ last'.results = <<>>]_vars

----------------------------------------------------------------------------
(* Claims on clear and reset *)

----------------------------------------------------------------------------
(* Claims on statistics, export and import *)

\* The keys of a stored metadata, none for a document without metadata.
KeysOf(meta) == IF meta = PyNone THEN {} ELSE DOMAIN meta

\* C22: for every state of an existing collection get_statistics returns
\* total_documents = the number of stored documents, metadata_fields = the
\* union of the stored documents' metadata keys, and for each such key the
\* number of distinct values of that key among the documents that have it.
C22_StatisticsOfEveryCollection ==
    [][(last'.op = "get_statistics" /\ exists) =>
          LET stats == last'.ret
              fields == UNION {KeysOf(docs[d].metadata) : d \in DOMAIN docs}
          IN  /\ last'.exc = "none"
              /\ stats.total_documents = Cardinality(DOMAIN docs)
              /\ {"metadata_fields", "metadata_unique_counts"} \subseteq DOMAIN stats
              /\ stats.metadata_fields = fields
              /\ DOMAIN stats.metadata_unique_counts = fields
              /\ \A key \in fields :
                    stats.metadata_unique_counts[key] =
                        Cardinality({docs[d].metadata[key] :
                                        d \in {x \in DOMAIN docs : key \in KeysOf(docs[x].metadata)}})]_vars

\* The (id, text, metadata) triples a collection holds.
Triples(d) == {<<id, d[id].text, d[id].metadata>> : id \in DOMAIN d}

\* The (id, text, metadata) triples of the records of an export file, as
\* json.load gives them back.
FileTriples(f) ==
    {<<JsonLoad(f.documents[i]).id, JsonLoad(f.documents[i]).document,
       JsonLoad(f.documents[i]).metadata>> : i \in DOMAIN f.documents}

\* A successful export writes one {id, document, metadata} record per stored
\* document, no embedding, and their number as total_documents.
ExportWritesEveryDocument ==
    (last'.op = "export_to_json" /\ last'.ret)
        => /\ file'.written
           /\ Len(file'.documents) = Cardinality(DOMAIN docs)
           /\ file'.total_documents = Len(file'.documents)
           /\ \A i \in DOMAIN file'.documents :
                 DOMAIN file'.documents[i] = {"id", "document", "metadata"}
           /\ FileTriples(file') = Triples(docs)

\* An import, with a working encoder, of an export file into a collection
\* that holds nothing.
ImportsIntoEmpty ==
    /\ last'.op = "import_from_json"
    /\ file.written
    /\ docs = EmptyDocs
    /\ last'.swallowed # "EncoderError"

ImportRestoresFile ==
    /\ Triples(docs') = FileTriples(file)
    /\ CountDocuments' = file.total_documents

\* C23 as stated: an export writes one {id, document, metadata} record per
\* stored document with total_documents their number, and importing the
\* records into any collection that holds nothing gives a collection with
\* the same (id, text, metadata) triples and the same count().
C23_RoundTripIntoAnyEmptyCollection ==
    [][ExportWritesEveryDocument /\ (ImportsIntoEmpty => ImportRestoresFile)]_vars

\* C23, amended: the import restores the triples and the count, and returns
\* True, when the empty collection has no dimension yet or the dimension of
\* the encoder in use; an emptied collection that keeps another dimension
\* rejects the records and stays empty, with False returned.
C23_RoundTrip ==
    [][/\ ExportWritesEveryDocument
       /\ (ImportsIntoEmpty /\ dimension \in {0, encDim})
             => (ImportRestoresFile /\ last'.ret)
       /\ (ImportsIntoEmpty /\ dimension \notin {0, encDim} /\ file.total_documents > 0)
             => (docs' = EmptyDocs /\ ~last'.ret)]_vars

\* Two documents, one stored without metadata, have been exported and
\* imported into an empty collection.
C23_Witness ==
    /\ last.op = "import_from_json"
    /\ last.ret
    /\ CountDocuments = 2
    /\ \E a, b \in DOMAIN docs : docs[a].metadata = PyNone /\ docs[b].metadata = MetaXEn
    /\ Triples(docs) = FileTriples(file)

\* C24: get_statistics and export_to_json, returning normally or failing,
\* leave the stored documents (ids, texts, metadata, embeddings), the
\* collection and count() exactly as they were.
C24_StatisticsAndExportReadOnly ==
    [][last'.op \in {"get_statistics", "export_to_json"}
          => /\ docs' = docs
             /\ CountDocuments' = CountDocuments
             /\ dimension' = dimension
             /\ exists' = exists]_vars

\* export_to_json has failed on a collection that holds documents.
C24_Witness ==
    /\ last.op = "export_to_json"
    /\ ~last.ret
    /\ CountDocuments >= 1

----------------------------------------------------------------------------
(* Claims on updates without metadata *)

\* C29: VectorDB.update_document and SimpleVectorDB.update called with a new
\* text and no metadata leave the stored metadata of the document, and of
\* every other document, as it was.
C29_TextUpdateKeepsMetadata ==
    [][(/\ last'.op \in {"update_document", "update"}
        /\ last'.text # NoText
        /\ last'.metadata = PyNone)
          => /\ DOMAIN docs' = DOMAIN docs
             /\ \A id \in DOMAIN docs : docs'[id].metadata = docs[id].metadata]_vars

\* SimpleVectorDB.update has replaced the text of a stored document that has
\* metadata, with no metadata passed.
C29_Witness ==
    /\ last.op = "update"
    /\ last.ret
    /\ last.had
    /\ last.metadata = PyNone
    /\ docs[last.id].text = last.text
    /\ docs[last.id].metadata = MetaX

----------------------------------------------------------------------------
(* Claims on the Lambda function *)

\* The AWS calls a step has added.
NewCalls == SubSeq(aws'.calls, Len(aws.calls) + 1, Len(aws'.calls))

\* The object key of a record, URL-decoded, does not end in '.pdf' in any case.
NotPdfRecord(event_record) ==
    /\ "s3" \in DOMAIN event_record
    /\ ~EndsWith(KeyLower(UnquotePlus(event_record.s3.object.key)), "pdf")

\* C25: process_pdf_event on a record whose URL-decoded key does not end in
\* '.pdf', in whatever case, returns status 'skipped' with reason 'Not a PDF
\* file' and makes no S3 read, no S3 write and no Bedrock call.
C25_NonPdfSkipped ==
    [][(last'.op = "process_pdf_event" /\ NotPdfRecord(last'.event_record))
          => /\ last'.ret.status = "skipped"
             /\ last'.ret.reason = "Not a PDF file"
             /\ NewCalls = <<>>]_vars

\* process_pdf_event has skipped a key that has '.pdf' before a trailing
\* encoded space.
C25_Witness ==
    /\ last.op = "process_pdf_event"
    /\ last.event_record.s3.object.key = <<"sample", ".", "pdf", "+">>
    /\ last.ret.status = "skipped"
    /\ aws.calls = <<>>

\* C26: with KNOWLEDGE_BASE_ID and DATA_SOURCE_ID set in os.environ when
\* lambda_handler is called, an S3 event with n records, or a direct
\* {bucket, key} event, gets statusCode 200 and a summary whose total is the
\* number of records processed (n, or 1).
C26_HandlerWithEnvironmentSet ==
    [][(/\ last'.op = "lambda_handler"
        /\ \A n \in EnvNames : aws.environ[n]
        /\ last'.event \in S3Events \cup DirectEvents)
          => /\ last'.ret.statusCode = 200
             /\ last'.ret.body.summary.total = Len(RecordsOf(last'.event))]_vars

\* An API call that went through.
Done(call, api) == call.api = api /\ call.ok

\* C30: the ingestion job of a record is started only after its text object
\* has been written; a record reported 'failed' or 'skipped' has written no
\* text object and started no ingestion job, and a record reported 'success'
\* has done both.
C30_SideEffectsOnlyOnSuccess ==
    [][last'.op = "process_pdf_event"
          => /\ \A j \in DOMAIN NewCalls :
                   Done(NewCalls[j], "start_ingestion_job")
                       => \E i \in 1..(j - 1) : Done(NewCalls[i], "put_object")
             /\ last'.ret.status \in {"failed", "skipped"}
                   => \A j \in DOMAIN NewCalls :
                         /\ ~Done(NewCalls[j], "put_object")
                         /\ ~Done(NewCalls[j], "start_ingestion_job")
             /\ last'.ret.status = "success"
                   => /\ \E j \in DOMAIN NewCalls : Done(NewCalls[j], "put_object")
                      /\ \E j \in DOMAIN NewCalls : Done(NewCalls[j], "start_ingestion_job")]_vars

----------------------------------------------------------------------------
(* Claims on the A2A providers *)

\* The providers a call has tried are those of the cyclic order from the
\* index current_index had when the call started, each once.
CyclicOnce(call) ==
    /\ Len(call.tried) <= a2a.providers
    /\ \A k \in DOMAIN call.tried : call.tried[k] = (call.start + k - 1) % a2a.providers

\* C27: a call of execute_with_failover tries the providers in cyclic order
\* from current_index, each at most once; it returns the result of the first
\* that succeeds, current_index then being that provider's index; it raises
\* only when every provider has failed (or there is none), and current_index
\* is then left as it was.
C27_FailoverCyclicOnce ==
    [][\A t \in Tasks :
          LET call == a2a'.calls[t] IN
          (last'.op = "execute_with_failover" /\ last'.task = t)
              => /\ CyclicOnce(call)
                 /\ call.pc = "returned"
                       => /\ call.result = call.tried[Len(call.tried)]
                          /\ a2a'.current_index = call.result
                 /\ call.pc = "raised"
                       => /\ Range(call.tried) = 0..(a2a.providers - 1)
                          /\ a2a'.current_index = a2a.current_index]_vars

\* The calls in flight on provider p.
InFlight(p) ==
    Cardinality({t \in BalancerTasks :
                    a2a.calls[t].pc = "awaiting" /\ a2a.calls[t].provider = p})

\* Task t selects its provider in this step.
Selects(t) == a2a.calls[t].pc # "awaiting" /\ a2a'.calls[t].pc = "awaiting"

\* C28: however the execute_tool coroutines interleave, every load counter
\* is the number of calls in flight on its provider, hence never negative,
\* and all counters are 0 once every call has returned or raised; with the
\* least-loaded strategy the provider selected has a lowest counter at the
\* time of selection.
C28_LoadCounters ==
    /\ [](cls = "LoadBalancedA2AProvider"
            => /\ \A p \in DOMAIN a2a.load_counters :
                     a2a.load_counters[p] >= 0 /\ a2a.load_counters[p] = InFlight(p)
               /\ (\A t \in BalancerTasks : a2a.calls[t].pc # "awaiting")
                     => \A p \in DOMAIN a2a.load_counters : a2a.load_counters[p] = 0)
    /\ [][\A t \in BalancerTasks :
             (Selects(t) /\ a2a.strategy = "least-loaded")
                 => \A p \in DOMAIN a2a.load_counters :
                       a2a.load_counters[a2a'.calls[t].provider] <= a2a.load_counters[p]]_vars

\* Under least-loaded, one call has raised, the two others are in flight on
\* different providers, and a provider is idle.
C28_Witness ==
    /\ cls = "LoadBalancedA2AProvider"
    /\ a2a.strategy = "least-loaded"
    /\ a2a.providers = 3
    /\ \E t, u, v \in BalancerTasks :
          /\ a2a.calls[t].pc = "raised"
          /\ a2a.calls[u].pc = "awaiting"
          /\ a2a.calls[v].pc = "awaiting"
          /\ a2a.calls[u].provider # a2a.calls[v].provider
    /\ \E p \in DOMAIN a2a.load_counters : a2a.load_counters[p] = 0

====
